---- MODULE Spec2Model ----
(***************************************************************************)
(* Model of fundas: the response cache (fundas/cache.py, class APICache).  *)
(*                                                                         *)
(* The cache directory is a map from file name to file text.  A file text  *)
(* is a sequence of JSON tokens; json.dump and json.load are modelled by   *)
(* an encoder and a recursive-descent parser over those tokens, so that a  *)
(* record that is torn, foreign or not an object is a text like any other. *)
(*                                                                         *)
(* Spec is the cache on a file system that meets no I/O fault, SpecIO the  *)
(* cache on one where any file operation can fail, and SpecKey the cache   *)
(* under a wider set of argument tuples, for the cache key.                *)
(***************************************************************************)
EXTENDS Integers, Sequences, FiniteSets, TLC

\* Bounds of the model: the clock runs from 0 to MaxTime, and the key
\* specification holds at most MaxKeyFiles files at a time.
MaxTime == 2
MaxKeyFiles == 3

\* Bounds of the client's specifications: a client makes at most MaxRetries
\* attempts, MaxDelay seconds apart at first, and the clock of the
\* specification of the requests runs to MaxClock.
MaxRetries == 3
MaxDelay == 1
MaxClock == 3

\* The ttl the cache is constructed with: APICache(cache_dir=..., ttl=1).
TestTtl == 1

\* The max_retries of the clients whose extraction methods are called.
ClientRetries == 2

\* Bounds of the inputs of the parser and of the padding: a completion text
\* is made of at most MaxPieces pieces.
MaxPieces == 4
\* A mapping handed to the padding has at most MaxColumns keys and its lists
\* at most MaxCells cells.
MaxColumns == 2
MaxCells == 3

\* A list handed to convert_value has at most MaxItems items.
MaxItems == 2

\* A Schema is built from at most MaxSchemaColumns Column objects, and a
\* column of the data handed to convert_data has at most MaxRows cells.
MaxSchemaColumns == 2
MaxRows == 2

\* Two processes make at most MaxRaceCalls calls each on one cache file, and
\* a write call of the file object carries at most BufferSize tokens of a
\* record (io.DEFAULT_BUFFER_SIZE bytes of a record that is longer).
MaxRaceCalls == 2
BufferSize == 12

(***************************************************************************)
(* Python values, tagged by type.                                          *)
(***************************************************************************)
PyNone == [k |-> "None"]
PyInt(n) == [k |-> "int", n |-> n]
PyStr(s) == [k |-> "str", s |-> s]
PyList(xs) == [k |-> "list", items |-> xs]
PyTuple(xs) == [k |-> "tuple", items |-> xs]
\* A dict with string keys, in insertion order.
PyDict(ks, vs) == [k |-> "dict", keys |-> ks, vals |-> vs]
\* A value json cannot serialise (a set, a datetime, any other object).
PyObject == [k |-> "object"]

PyBool(b) == [k |-> "bool", b |-> b]
\* A float: c is "finite", "inf" or "nan", and a finite float is h
\* hundredths.
PyFloat(c, h) == [k |-> "float", c |-> c, h |-> h]
PyDate(y, m, d) == [k |-> "date", y |-> y, m |-> m, d |-> d]
\* A datetime is a date with a time of day.
PyDatetime(date, H, M, S, f) ==
    [k |-> "datetime", date |-> date, H |-> H, M |-> M, S |-> S, f |-> f]

\* dict.get(key, default); the caller has checked that d is a dict.
DictGet(d, key, default) ==
    IF \E i \in 1..Len(d.keys) : d.keys[i] = key
    THEN d.vals[CHOOSE i \in 1..Len(d.keys) : d.keys[i] = key]
    ELSE default

(***************************************************************************)
(* JSON text: a sequence of tokens.                                        *)
(***************************************************************************)
Punct(c) == [t |-> "p", c |-> c]
TStr(s) == [t |-> "s", s |-> s]
TNum(n) == [t |-> "n", n |-> n]
\* A number with a fraction or an exponent: x is the float it writes.
TFloat(x) == [t |-> "f", x |-> x]
TNull == [t |-> "null"]
\* A token that starts no JSON value ("not valid json {{{").
TJunk == [t |-> "junk"]

RECURSIVE JsonEncode(_), EncodeItems(_, _, _), EncodeMembers(_, _, _)

\* json.dump writes the chunks of JSONEncoder.iterencode one by one: the
\* result is the text written so far and whether encoding reached the end.
\* ok = FALSE is the TypeError raised at a value that is not serialisable.
JsonEncode(v) ==
    CASE v.k = "None" -> [text |-> <<TNull>>, ok |-> TRUE]
      [] v.k = "int" -> [text |-> <<TNum(v.n)>>, ok |-> TRUE]
      [] v.k = "str" -> [text |-> <<TStr(v.s)>>, ok |-> TRUE]
      [] v.k \in {"list", "tuple"} ->
            IF Len(v.items) = 0
            THEN [text |-> <<Punct("["), Punct("]")>>, ok |-> TRUE]
            ELSE EncodeItems(v.items, 1, <<Punct("[")>>)
      [] v.k = "dict" ->
            IF Len(v.keys) = 0
            THEN [text |-> <<Punct("{"), Punct("}")>>, ok |-> TRUE]
            ELSE EncodeMembers(v, 1, <<Punct("{")>>)
      [] OTHER -> [text |-> <<>>, ok |-> FALSE]

EncodeItems(items, i, acc) ==
    LET e == JsonEncode(items[i]) IN
    IF ~e.ok THEN [text |-> acc \o e.text, ok |-> FALSE]
    ELSE IF i = Len(items)
         THEN [text |-> acc \o e.text \o <<Punct("]")>>, ok |-> TRUE]
         ELSE EncodeItems(items, i + 1, acc \o e.text \o <<Punct(",")>>)

EncodeMembers(d, i, acc) ==
    LET e == JsonEncode(d.vals[i])
        head == acc \o <<TStr(d.keys[i]), Punct(":")>>
    IN
    IF ~e.ok THEN [text |-> head \o e.text, ok |-> FALSE]
    ELSE IF i = Len(d.keys)
         THEN [text |-> head \o e.text \o <<Punct("}")>>, ok |-> TRUE]
         ELSE EncodeMembers(d, i + 1, head \o e.text \o <<Punct(",")>>)

RECURSIVE ParseValue(_, _), ParseItems(_, _, _), ParseMembers(_, _, _, _)

ParseFail == [ok |-> FALSE]
Parsed(v, next) == [ok |-> TRUE, v |-> v, next |-> next]
IsPunct(toks, i, c) == i <= Len(toks) /\ toks[i] = Punct(c)

\* The JSON value that starts at token i, and the position after it.
ParseValue(toks, i) ==
    IF i > Len(toks) THEN ParseFail
    ELSE LET t == toks[i] IN
         CASE t.t = "null" -> Parsed(PyNone, i + 1)
           [] t.t = "n" -> Parsed(PyInt(t.n), i + 1)
           [] t.t = "f" -> Parsed(t.x, i + 1)
           [] t.t = "s" -> Parsed(PyStr(t.s), i + 1)
           [] t.t = "p" /\ t.c = "[" ->
                 IF IsPunct(toks, i + 1, "]")
                 THEN Parsed(PyList(<<>>), i + 2)
                 ELSE ParseItems(toks, i + 1, <<>>)
           [] t.t = "p" /\ t.c = "{" ->
                 IF IsPunct(toks, i + 1, "}")
                 THEN Parsed(PyDict(<<>>, <<>>), i + 2)
                 ELSE ParseMembers(toks, i + 1, <<>>, <<>>)
           [] OTHER -> ParseFail

ParseItems(toks, i, acc) ==
    LET r == ParseValue(toks, i) IN
    IF ~r.ok THEN ParseFail
    ELSE IF IsPunct(toks, r.next, ",")
         THEN ParseItems(toks, r.next + 1, Append(acc, r.v))
         ELSE IF IsPunct(toks, r.next, "]")
              THEN Parsed(PyList(Append(acc, r.v)), r.next + 1)
              ELSE ParseFail

ParseMembers(toks, i, ks, vs) ==
    IF ~(i <= Len(toks) /\ toks[i].t = "s" /\ IsPunct(toks, i + 1, ":"))
    THEN ParseFail
    ELSE LET r == ParseValue(toks, i + 2) IN
         IF ~r.ok THEN ParseFail
         ELSE IF IsPunct(toks, r.next, ",")
              THEN ParseMembers(toks, r.next + 1,
                                Append(ks, toks[i].s), Append(vs, r.v))
              ELSE IF IsPunct(toks, r.next, "}")
                   THEN Parsed(PyDict(Append(ks, toks[i].s), Append(vs, r.v)),
                               r.next + 1)
                   ELSE ParseFail

\* json.load: the value of the whole text, or ok = FALSE (JSONDecodeError)
\* when the text is empty, malformed or followed by extra tokens.
JsonLoad(text) ==
    LET r == ParseValue(text, 1) IN
    IF r.ok /\ r.next = Len(text) + 1 THEN [ok |-> TRUE, v |-> r.v]
    ELSE [ok |-> FALSE]

(***************************************************************************)
(* Python strings.  A string is a TLA+ string; Chars lists the characters  *)
(* of the strings whose characters the code looks at, and Str is its       *)
(* inverse.  Positions are Python's: the first character is at 0.  A TLA+  *)
(* string cannot hold a backquote: the model writes it as an apostrophe.   *)
(***************************************************************************)
Chars ==
    ("age" :> <<"a", "g", "e">>)
    @@ ("content" :> <<"c", "o", "n", "t", "e", "n", "t">>)
    @@ ("s" :> <<"s">>)
    @@ ("__schema:" :> <<"_", "_", "s", "c", "h", "e", "m", "a", ":">>)
    @@ ("__schema:s" :> <<"_", "_", "s", "c", "h", "e", "m", "a", ":", "s">>)
    @@ ("c" :> <<"c">>)
    @@ ("audio:" :> <<"a", "u", "d", "i", "o", ":">>)
    @@ ("audio:c" :> <<"a", "u", "d", "i", "o", ":", "c">>)
    @@ ("30" :> <<"3", "0">>)
    @@ ("1,000" :> <<"1", ",", "0", "0", "0">>)
    @@ ("1000" :> <<"1", "0", "0", "0">>)
    @@ ("{\"age\": [\"30\"]}" :> <<"{", "\"", "a", "g", "e", "\"", ":", " ", "[", "\"", "3", "0", "\"", "]", "}">>)
    @@ ("{\"age\": \"30\"}" :> <<"{", "\"", "a", "g", "e", "\"", ":", " ", "\"", "3", "0", "\"", "}">>)
    @@ ("null" :> <<"n", "u", "l", "l">>)
    @@ ("[\"30\"]" :> <<"[", "\"", "3", "0", "\"", "]">>)
    @@ ("'''json {\"age\": [\"30\"]} '''" :> <<"'", "'", "'", "j", "s", "o", "n", " ", "{", "\"", "a", "g", "e", "\"", ":", " ", "[", "\"", "3", "0", "\"", "]", "}", " ", "'", "'", "'">>)
    @@ ("3.14" :> <<"3", ".", "1", "4">>)
    @@ ("abc" :> <<"a", "b", "c">>)
    @@ ("a, b" :> <<"a", ",", " ", "b">>)
    @@ ("ab" :> <<"a", "b">>)
    @@ ("a" :> <<"a">>)
    @@ ("b" :> <<"b">>)
    @@ ("inf" :> <<"i", "n", "f">>)
    @@ ("1e999" :> <<"1", "e", "9", "9", "9">>)
    @@ ("nan" :> <<"n", "a", "n">>)
    @@ ("2024-01-02" :> <<"2", "0", "2", "4", "-", "0", "1", "-", "0", "2">>)
    @@ ("01/02/2024" :> <<"0", "1", "/", "0", "2", "/", "2", "0", "2", "4">>)
    @@ ("02/13/2024" :> <<"0", "2", "/", "1", "3", "/", "2", "0", "2", "4">>)
    @@ ("02.01.2024" :> <<"0", "2", ".", "0", "1", ".", "2", "0", "2", "4">>)
    @@ ("2024-01-02T03:04:05" :> <<"2", "0", "2", "4", "-", "0", "1", "-", "0", "2", "T", "0", "3", ":", "0", "4", ":", "0", "5">>)
    @@ ("Yes" :> <<"Y", "e", "s">>)
    @@ ("{bad" :> <<"{", "b", "a", "d">>)
    @@ ("{\"age\":[\"30\"]}" :> <<"{", "\"", "a", "g", "e", "\"", ":", "[", "\"", "3", "0", "\"", "]", "}">>)
    @@ ("1" :> <<"1">>)
    @@ ("000" :> <<"0", "0", "0">>)
    @@ ("0" :> <<"0">>)
    @@ ("True" :> <<"T", "r", "u", "e">>)
    @@ ("False" :> <<"F", "a", "l", "s", "e">>)
    @@ ("x" :> <<"x">>)
    @@ (" 30" :> <<" ", "3", "0">>)
    @@ ("{\"a\": 1, \"b\": 2}" :> <<"{", "\"", "a", "\"", ":", " ", "1", ",", " ", "\"", "b", "\"", ":", " ", "2", "}">>)
    @@ ("{\"a\": 1" :> <<"{", "\"", "a", "\"", ":", " ", "1">>)
    @@ ("\"b\": 2}" :> <<"\"", "b", "\"", ":", " ", "2", "}">>)
    @@ ("{\"a\":1\"b\":2}" :> <<"{", "\"", "a", "\"", ":", "1", "\"", "b", "\"", ":", "2", "}">>)
    @@ ("string" :> <<"s", "t", "r", "i", "n", "g">>)
    @@ ("int" :> <<"i", "n", "t">>)
    @@ ("INT" :> <<"I", "N", "T">>)
    @@ ("money" :> <<"m", "o", "n", "e", "y">>)
    @@ ("m" :> <<"m">>)
    @@ ("gpt-400" :> <<"g", "p", "t", "-", "4", "0", "0">>)
    @@ ("400" :> <<"4", "0", "0">>)
    @@ ("Invalid request" :> <<"I", "n", "v", "a", "l", "i", "d", " ", "r", "e", "q", "u", "e", "s", "t">>)
    @@ ("Invalid API key" :> <<"I", "n", "v", "a", "l", "i", "d", " ", "A", "P", "I", " ", "k", "e", "y">>)
    @@ ("Invalid request: 400 Client Error" :> <<"I", "n", "v", "a", "l", "i", "d", " ", "r", "e", "q", "u", "e", "s", "t", ":", " ", "4", "0", "0", " ", "C", "l", "i", "e", "n", "t", " ", "E", "r", "r", "o", "r">>)
    @@ ("Model not found: " :> <<"M", "o", "d", "e", "l", " ", "n", "o", "t", " ", "f", "o", "u", "n", "d", ":", " ">>)
    @@ ("Model not found: m" :> <<"M", "o", "d", "e", "l", " ", "n", "o", "t", " ", "f", "o", "u", "n", "d", ":", " ", "m">>)
    @@ ("Model not found: gpt-400" :> <<"M", "o", "d", "e", "l", " ", "n", "o", "t", " ", "f", "o", "u", "n", "d", ":", " ", "g", "p", "t", "-", "4", "0", "0">>)

Str(cs) == CHOOSE s \in DOMAIN Chars : Chars[s] = cs

\* sub occurs in cs at position i
OccursAt(cs, sub, i) ==
    /\ i + Len(sub) <= Len(cs)
    /\ \A j \in 1..Len(sub) : cs[i + j] = sub[j]

\* cs.find(sub, start): the lowest position from start on, or -1
Find(cs, sub, start) ==
    LET at == {i \in start..Len(cs) : OccursAt(cs, sub, i)} IN
    IF at = {} THEN -1 ELSE CHOOSE i \in at : \A j \in at : i <= j

\* sub in cs
Contains(cs, sub) == Find(cs, sub, 0) # -1

\* cs[start:stop], where a negative stop counts from the end
Slice(cs, start, stop) ==
    LET raw == IF stop < 0 THEN Len(cs) + stop ELSE stop
        end == IF raw > Len(cs) THEN Len(cs) ELSE raw
    IN
    IF end <= start THEN <<>> ELSE [i \in 1..(end - start) |-> cs[start + i]]

Whitespace == {" ", "\n", "\t"}

RECURSIVE LStrip(_), RStrip(_)
LStrip(cs) ==
    IF cs # <<>> /\ Head(cs) \in Whitespace THEN LStrip(Tail(cs)) ELSE cs
RStrip(cs) ==
    IF cs # <<>> /\ cs[Len(cs)] \in Whitespace
    THEN RStrip(SubSeq(cs, 1, Len(cs) - 1)) ELSE cs

\* cs.strip()
Strip(cs) == RStrip(LStrip(cs))

\* cs.replace(c, "") for a single character c
RECURSIVE Without(_, _)
Without(cs, c) ==
    IF cs = <<>> THEN <<>>
    ELSE IF Head(cs) = c THEN Without(Tail(cs), c)
    ELSE <<Head(cs)>> \o Without(Tail(cs), c)

Digits == <<"0", "1", "2", "3", "4", "5", "6", "7", "8", "9">>
IsDigit(c) == \E d \in 1..10 : Digits[d] = c
DigitVal(c) == (CHOOSE d \in 1..10 : Digits[d] = c) - 1

\* The number a run of digits writes.
RECURSIVE DigitsVal(_, _)
DigitsVal(cs, acc) ==
    IF cs = <<>> THEN acc
    ELSE DigitsVal(Tail(cs), 10 * acc + DigitVal(Head(cs)))

\* str(n) for n >= 0
RECURSIVE IntChars(_)
IntChars(n) ==
    IF n < 10 THEN <<Digits[n + 1]>>
    ELSE IntChars(n \div 10) \o <<Digits[(n % 10) + 1]>>

\* The position after the run of digits that starts at i (1-based).
RECURSIVE DigitsEnd(_, _)
DigitsEnd(cs, i) ==
    IF i <= Len(cs) /\ IsDigit(cs[i]) THEN DigitsEnd(cs, i + 1) ELSE i

\* The hundredths that the digits after the point write; the digits after
\* the second are left out.
Hundredths(frac) ==
    IF Len(frac) = 0 THEN 0
    ELSE IF Len(frac) = 1 THEN 10 * DigitVal(frac[1])
    ELSE 10 * DigitVal(frac[1]) + DigitVal(frac[2])

RECURSIVE Pow10(_)
Pow10(n) == IF n = 0 THEN 1 ELSE 10 * Pow10(n - 1)

\* float(s) of the digits whole, followed at position w of s by a point and
\* digits, by the letter e and digits, or by nothing.
float_parts(s, w, whole) ==
    IF w = 1 THEN [ok |-> FALSE]
    ELSE IF w > Len(s) THEN [ok |-> TRUE, x |-> PyFloat("finite", 100 * whole)]
    ELSE IF DigitsEnd(s, w + 1) # Len(s) + 1 THEN [ok |-> FALSE]
    ELSE IF s[w] = "."
    THEN [ok |-> TRUE,
          x |-> PyFloat("finite",
                        100 * whole + Hundredths(SubSeq(s, w + 1, Len(s))))]
    ELSE IF s[w] = "e" /\ w < Len(s)
    THEN IF whole = 0 THEN [ok |-> TRUE, x |-> PyFloat("finite", 0)]
         ELSE IF DigitsVal(SubSeq(s, w + 1, Len(s)), 0) > 308
         THEN [ok |-> TRUE, x |-> PyFloat("inf", 0)]
         ELSE [ok |-> TRUE,
               x |-> PyFloat("finite",
                             100 * whole
                                * Pow10(DigitsVal(SubSeq(s, w + 1, Len(s)),
                                                  0)))]
    ELSE [ok |-> FALSE]

float_of_digits(s, w) == float_parts(s, w, DigitsVal(SubSeq(s, 1, w - 1), 0))

float_of_stripped(s) ==
    IF s = <<"i", "n", "f">> THEN [ok |-> TRUE, x |-> PyFloat("inf", 0)]
    ELSE IF s = <<"n", "a", "n">> THEN [ok |-> TRUE, x |-> PyFloat("nan", 0)]
    ELSE float_of_digits(s, DigitsEnd(s, 1))

\* float(s) of a string: digits, digits with a point, digits with an
\* exponent, inf and nan, with white space around.  An exponent above 308
\* gives inf.  ok = FALSE is ValueError.
float_of(cs) == float_of_stripped(Strip(cs))

(***************************************************************************)
(* json.loads of a string: the characters are cut into tokens, and the     *)
(* tokens parsed as above.  The texts of the model hold objects, arrays,   *)
(* strings without escapes, unsigned integers and null.                    *)
(***************************************************************************)
\* The position of the next double quote from i on, or 0.
RECURSIVE QuoteAt(_, _)
QuoteAt(cs, i) ==
    IF i > Len(cs) THEN 0
    ELSE IF cs[i] = "\"" THEN i ELSE QuoteAt(cs, i + 1)

\* The position after the run of digits, points and letters e that starts
\* at i.
RECURSIVE NumberEnd(_, _)
NumberEnd(cs, i) ==
    IF i <= Len(cs) /\ (IsDigit(cs[i]) \/ cs[i] \in {".", "e"})
    THEN NumberEnd(cs, i + 1) ELSE i

RECURSIVE Lex(_, _, _), LexFloat(_, _, _, _)
\* The tokens from position i on, after the float parsed.
LexFloat(cs, i, acc, parsed) ==
    IF parsed.ok THEN Lex(cs, i, Append(acc, TFloat(parsed.x)))
    ELSE Append(acc, TJunk)

Lex(cs, i, acc) ==
    IF i > Len(cs) THEN acc
    ELSE LET c == cs[i] IN
    IF c \in Whitespace THEN Lex(cs, i + 1, acc)
    ELSE IF c \in {"{", "}", "[", "]", ",", ":"}
    THEN Lex(cs, i + 1, Append(acc, Punct(c)))
    ELSE IF IsDigit(c)
    THEN LET j == DigitsEnd(cs, i)
             end == NumberEnd(cs, j)
         IN
         \* JSON has no number with a leading zero
         IF c = "0" /\ j > i + 1 THEN Append(acc, TJunk)
         ELSE IF end = j
         THEN Lex(cs, j, Append(acc, TNum(DigitsVal(SubSeq(cs, i, j - 1), 0))))
         \* a fraction or an exponent: a float, and it has to end in a digit
         ELSE IF IsDigit(cs[end - 1])
         THEN LexFloat(cs, end, acc, float_of(SubSeq(cs, i, end - 1)))
         ELSE Append(acc, TJunk)
    ELSE IF c = "\""
    THEN LET j == QuoteAt(cs, i + 1) IN
         IF j = 0 THEN Append(acc, TJunk)
         ELSE Lex(cs, j + 1, Append(acc, TStr(Str(SubSeq(cs, i + 1, j - 1)))))
    ELSE IF OccursAt(cs, <<"n", "u", "l", "l">>, i - 1)
    THEN Lex(cs, i + 4, Append(acc, TNull))
    ELSE Append(acc, TJunk)

\* json.loads(s): ok = FALSE is json.JSONDecodeError
json_loads(cs) == JsonLoad(Lex(cs, 1, <<>>))

(***************************************************************************)
(* The extraction methods' reading of a completion text (fundas/core.py):  *)
(* the payload between code fences, then json.loads, then the padding of   *)
(* the columns to one length.                                              *)
(***************************************************************************)
Fence == <<"'", "'", "'">>
FenceJson == Fence \o <<"j", "s", "o", "n">>

\* A faulty json_str: the first fence of either kind opens the payload.
json_str_first_fence(response_text) ==
    IF Contains(response_text, Fence)
    THEN LET json_start == Find(response_text, Fence, 0) + 3
             json_end == Find(response_text, Fence, json_start)
         IN Strip(Slice(response_text, json_start, json_end))
    ELSE Strip(response_text)

\* json_str: what is handed to json.loads.  A fence that is not closed makes
\* find return -1, and the slice then ends before the last character.
json_str(response_text) ==
    IF Contains(response_text, FenceJson)
    THEN LET json_start == Find(response_text, FenceJson, 0) + 7
             json_end == Find(response_text, Fence, json_start)
         IN Strip(Slice(response_text, json_start, json_end))
    ELSE IF Contains(response_text, Fence)
    THEN LET json_start == Find(response_text, Fence, 0) + 3
             json_end == Find(response_text, Fence, json_start)
         IN Strip(Slice(response_text, json_start, json_end))
    ELSE Strip(response_text)

Repeat(x, n) == [i \in 1..n |-> x]
ValueLen(v) == IF v.k = "list" THEN Len(v.items) ELSE 1

\* A faulty max_len: the values that are not lists are not counted.
max_len_of_lists(data) ==
    LET lens == {Len(data.vals[i].items) :
                    i \in {j \in 1..Len(data.vals) : data.vals[j].k = "list"}}
    IN IF lens = {} THEN 1 ELSE CHOOSE m \in lens : \A n \in lens : n <= m

\* max((len(v) if isinstance(v, list) else 1 for v in data.values()),
\*     default=1)
max_len(data) ==
    LET lens == {ValueLen(data.vals[i]) : i \in 1..Len(data.vals)} IN
    IF lens = {} THEN 1 ELSE CHOOSE m \in lens : \A n \in lens : n <= m

\* normalized_data of the text, schema and audio methods: a short list is
\* padded with None, a value that is not a list is repeated max_len times.
normalized_data(data) ==
    PyDict(data.keys,
           [i \in 1..Len(data.vals) |->
               LET value == data.vals[i] IN
               IF value.k = "list"
               THEN IF Len(value.items) < max_len(data)
                    THEN PyList(value.items
                                \o Repeat(PyNone,
                                          max_len(data) - Len(value.items)))
                    ELSE value
               ELSE PyList(Repeat(value, max_len(data)))])

\* The image method's padding, done in place: a value that is not a list
\* becomes [value] followed by max_length - 1 times None.
normalized_data_image(data) ==
    PyDict(data.keys,
           [i \in 1..Len(data.vals) |->
               LET value == data.vals[i] IN
               IF value.k = "list"
               THEN IF Len(value.items) < max_len(data)
                    THEN PyList(value.items
                                \o Repeat(PyNone,
                                          max_len(data) - Len(value.items)))
                    ELSE value
               ELSE PyList(<<value>> \o Repeat(PyNone, max_len(data) - 1))])

(***************************************************************************)
(* Column and Schema (fundas/schema.py).  dtype is the value of the        *)
(* DataType: "string", "integer", "number", "boolean", "date", "datetime", *)
(* "json" or "array".                                                      *)
(***************************************************************************)
\* A format string of strptime, given by its directives and literal
\* characters.
PyFormat(tokens) == [k |-> "str", tokens |-> tokens]

\* Column(name, dtype) with the defaults of the other arguments;
\* array_item_type is a dtype or "none".
Column(name, dtype) ==
    [name |-> name, dtype |-> dtype, nullable |-> FALSE, default |-> PyNone,
     date_format |-> PyNone, array_item_type |-> "none"]
Schema(columns, name) == [columns |-> columns, name |-> name]

Converted(exc, v) == [exc |-> exc, v |-> v]

\* float(value)
float(value) ==
    CASE value.k = "str" ->
            LET parsed == float_of(Chars[value.s]) IN
            IF parsed.ok THEN Converted("none", parsed.x)
            ELSE Converted("ValueError", PyNone)
      [] value.k = "int" -> Converted("none", PyFloat("finite", 100 * value.n))
      [] value.k = "bool" ->
            Converted("none", PyFloat("finite", IF value.b THEN 100 ELSE 0))
      [] value.k = "float" -> Converted("none", value)
      [] OTHER -> Converted("TypeError", PyNone)

\* int(x) of a float
int(x) ==
    CASE x.c = "finite" -> Converted("none", PyInt(x.h \div 100))
      [] x.c = "inf" -> Converted("OverflowError", PyNone)
      [] x.c = "nan" -> Converted("ValueError", PyNone)

\* str(value); the string that str makes of a float, a container or a date
\* is given by the value it is made of.
str(value) ==
    CASE value.k = "str" -> value
      [] value.k = "int" -> PyStr(Str(IntChars(value.n)))
      [] value.k = "bool" -> PyStr(IF value.b THEN "True" ELSE "False")
      [] OTHER -> [k |-> "str", of |-> value]

\* bool(value)
bool(value) ==
    CASE value.k = "None" -> FALSE
      [] value.k = "int" -> value.n # 0
      [] value.k = "float" -> ~(value.c = "finite" /\ value.h = 0)
      [] value.k \in {"list", "tuple"} -> value.items # <<>>
      [] value.k = "dict" -> value.keys # <<>>
      [] OTHER -> TRUE

UpperCase ==
    <<"A", "B", "C", "D", "E", "F", "G", "H", "I", "J", "K", "L", "M",
      "N", "O", "P", "Q", "R", "S", "T", "U", "V", "W", "X", "Y", "Z">>
LowerCase ==
    <<"a", "b", "c", "d", "e", "f", "g", "h", "i", "j", "k", "l", "m",
      "n", "o", "p", "q", "r", "s", "t", "u", "v", "w", "x", "y", "z">>
\* cs.lower()
Lower(cs) ==
    [i \in 1..Len(cs) |->
        IF \E u \in 1..26 : UpperCase[u] = cs[i]
        THEN LowerCase[CHOOSE u \in 1..26 : UpperCase[u] = cs[i]]
        ELSE cs[i]]

\* ("true", "yes", "1", "on", "t", "y")
TrueWords ==
    {<<"t", "r", "u", "e">>, <<"y", "e", "s">>, <<"1">>, <<"o", "n">>,
     <<"t">>, <<"y">>}

\* cs.split(","), each part stripped
RECURSIVE SplitStripped(_, _, _)
SplitStripped(cs, i, part) ==
    IF i > Len(cs) THEN <<PyStr(Str(Strip(part)))>>
    ELSE IF cs[i] = ","
    THEN <<PyStr(Str(Strip(part)))>> \o SplitStripped(cs, i + 1, <<>>)
    ELSE SplitStripped(cs, i + 1, Append(part, cs[i]))

(***************************************************************************)
(* datetime.strptime.  A directive takes the digits that stand at the      *)
(* position, at most as many as its width, and their number has to lie in  *)
(* the directive's range; the text has to end where the format ends.       *)
(***************************************************************************)
Directives == {"%Y", "%m", "%d", "%H", "%M", "%S", "%f"}
Width(tok) == CASE tok = "%Y" -> 4 [] tok = "%f" -> 6 [] OTHER -> 2
InRange(tok, v, digits) ==
    CASE tok = "%Y" -> digits = 4
      [] tok = "%m" -> v \in 1..12
      [] tok = "%d" -> v \in 1..31
      [] tok = "%H" -> v \in 0..23
      [] tok = "%M" -> v \in 0..59
      [] tok = "%S" -> v \in 0..61
      [] OTHER -> TRUE

\* The fields of a datetime that strptime starts from.
Epoch ==
    [tok \in Directives |->
        CASE tok = "%Y" -> 1900 [] tok \in {"%m", "%d"} -> 1 [] OTHER -> 0]

DaysIn(y, m) ==
    IF m = 2
    THEN IF y % 4 = 0 /\ (y % 100 # 0 \/ y % 400 = 0) THEN 29 ELSE 28
    ELSE IF m \in {4, 6, 9, 11} THEN 30 ELSE 31

RECURSIVE Match(_, _, _, _, _)
Match(cs, i, fmt, j, got) ==
    IF j > Len(fmt)
    THEN IF i > Len(cs) THEN [ok |-> TRUE, got |-> got] ELSE [ok |-> FALSE]
    ELSE IF fmt[j] \in Directives
    THEN LET run == DigitsEnd(cs, i)
             stop == IF run - i > Width(fmt[j]) THEN i + Width(fmt[j]) ELSE run
             v == DigitsVal(SubSeq(cs, i, stop - 1), 0)
         IN IF stop > i /\ InRange(fmt[j], v, stop - i)
            THEN Match(cs, stop, fmt, j + 1, [got EXCEPT ![fmt[j]] = v])
            ELSE [ok |-> FALSE]
    ELSE IF i <= Len(cs) /\ cs[i] = fmt[j]
         THEN Match(cs, i + 1, fmt, j + 1, got)
         ELSE [ok |-> FALSE]

\* datetime.strptime(cs, fmt): ok = FALSE is ValueError
strptime(cs, fmt) ==
    LET m == Match(cs, 1, fmt, 1, Epoch) IN
    IF m.ok /\ m.got["%d"] <= DaysIn(m.got["%Y"], m.got["%m"])
    THEN [ok |-> TRUE,
          v |-> PyDatetime(PyDate(m.got["%Y"], m.got["%m"], m.got["%d"]),
                           m.got["%H"], m.got["%M"], m.got["%S"], m.got["%f"])]
    ELSE [ok |-> FALSE]

\* The formats tried for a DATE and for a DATETIME, in order.
DateFormats ==
    << <<"%Y", "-", "%m", "-", "%d">>,
       <<"%d", "/", "%m", "/", "%Y">>,
       <<"%m", "/", "%d", "/", "%Y">>,
       <<"%Y", "/", "%m", "/", "%d">>,
       <<"%d", "-", "%m", "-", "%Y">>,
       <<"%m", "-", "%d", "-", "%Y">> >>
DatetimeFormats ==
    << <<"%Y", "-", "%m", "-", "%d", "T", "%H", ":", "%M", ":", "%S">>,
       <<"%Y", "-", "%m", "-", "%d", "T", "%H", ":", "%M", ":", "%S", "Z">>,
       <<"%Y", "-", "%m", "-", "%d", " ", "%H", ":", "%M", ":", "%S">>,
       <<"%Y", "-", "%m", "-", "%d", "T", "%H", ":", "%M", ":", "%S", ".",
         "%f">>,
       <<"%Y", "-", "%m", "-", "%d", "T", "%H", ":", "%M", ":", "%S", ".",
         "%f", "Z">>,
       <<"%d", "/", "%m", "/", "%Y", " ", "%H", ":", "%M", ":", "%S">>,
       <<"%m", "/", "%d", "/", "%Y", " ", "%H", ":", "%M", ":", "%S">> >>

\* for fmt in [...]: try: return strptime(value, fmt) except ValueError:
\* continue -- the first format from the i-th on that the text matches;
\* parsed is what strptime gives for the i-th.
RECURSIVE first_format(_, _, _), or_next_format(_, _, _, _)
or_next_format(parsed, cs, formats, i) ==
    IF parsed.ok THEN parsed ELSE first_format(cs, formats, i + 1)

first_format(cs, formats, i) ==
    IF i > Len(formats) THEN [ok |-> FALSE]
    ELSE or_next_format(strptime(cs, formats[i]), cs, formats, i)

\* What `import pandas` and pd.to_datetime(value) do is an input of the
\* conversion: the import or the call raises, or the call returns the
\* Timestamp of a datetime.
NoPandas == [ok |-> FALSE]
Timestamp(datetime) == [ok |-> TRUE, v |-> datetime]

\* A faulty on_none: the default comes before nullable.
on_none_default_first(col) ==
    IF col.default # PyNone THEN col.default ELSE PyNone

\* if value is None: ...
on_none(col) ==
    IF col.nullable THEN PyNone
    ELSE IF col.default # PyNone THEN col.default
    ELSE PyNone

\* value.replace(",", "").replace(" ", "").strip() of a string; any other
\* value as it is.  The name value is bound to the result.
without_separators(value) ==
    IF value.k = "str"
    THEN PyStr(Str(Strip(Without(Without(Chars[value.s], ","), " "))))
    ELSE value

\* .date() of the datetime parsed for a DATE, the datetime for a DATETIME.
date_or_datetime(date, parsed) ==
    Converted("none", IF date THEN parsed.v.date ELSE parsed.v)

\* return datetime.strptime(value, self.date_format): its ValueError leaves
\* the try block.
with_date_format(date, parsed) ==
    IF parsed.ok THEN date_or_datetime(date, parsed)
    ELSE Converted("ValueError", PyNone)

\* The loop over the common formats, then pandas, then `return value`.
with_common_formats(value, to_datetime, date, parsed) ==
    IF parsed.ok THEN date_or_datetime(date, parsed)
    ELSE IF to_datetime.ok THEN date_or_datetime(date, to_datetime)
    ELSE Converted("none", value)

\* The branch of a string in the DATE and DATETIME branches; date tells
\* which of the two.
from_date_string(col, value, to_datetime, date) ==
    IF col.date_format # PyNone
    THEN with_date_format(date,
                          strptime(Chars[value.s], col.date_format.tokens))
    ELSE with_common_formats(value, to_datetime, date,
                             first_format(Chars[value.s],
                                          IF date THEN DateFormats
                                          ELSE DatetimeFormats, 1))

\* return int(x) for INTEGER and return x for FLOAT, where x is the outcome
\* of float(value); on an exception .v is the value the name value is bound
\* to.
number_of(dtype, value, x) ==
    IF x.exc # "none" THEN Converted(x.exc, value)
    ELSE IF dtype = "number" THEN x
    ELSE IF x.v.c = "finite" THEN int(x.v)
    ELSE Converted(int(x.v).exc, value)

\* The INTEGER and FLOAT branches, value being bound to the string without
\* separators.
to_number(dtype, value) == number_of(dtype, value, float(value))

\* The JSON branch of a string; loaded is the outcome of json.loads(value).
json_of_string(loaded) ==
    IF loaded.ok THEN Converted("none", loaded.v)
    ELSE Converted("ValueError", PyNone)

\* The ARRAY branch of a string.
array_of_string(value, loaded) ==
    IF ~loaded.ok
    THEN Converted("none", PyList(SplitStripped(Chars[value.s], 1, <<>>)))
    ELSE IF loaded.v.k = "list" THEN Converted("none", loaded.v)
    ELSE Converted("none", PyList(<<value>>))

\* The JSON and ARRAY branches of a string.
from_json_string(dtype, value, loaded) ==
    IF dtype = "json" THEN json_of_string(loaded)
    ELSE array_of_string(value, loaded)

RECURSIVE convert_value(_, _, _)

\* The first exception among the outcomes, or the list of their values.
gathered(each) ==
    IF \E i \in 1..Len(each) : each[i].exc # "none"
    THEN Converted(each[CHOOSE i \in 1..Len(each) :
                           /\ each[i].exc # "none"
                           /\ \A j \in 1..(i - 1) : each[j].exc = "none"].exc,
                   PyNone)
    ELSE Converted("none", PyList([i \in 1..Len(each) |-> each[i].v]))

\* [item_col.convert_value(v) for v in value]
convert_items(item_col, items, to_datetime) ==
    gathered([i \in 1..Len(items) |->
                 convert_value(item_col, items[i], to_datetime)])

\* The try block of convert_value for a value that is not None: what it
\* returns, or the exception that leaves it.
try_block(col, value, to_datetime) ==
    CASE col.dtype = "string" -> Converted("none", str(value))
      [] col.dtype \in {"integer", "number"} ->
            to_number(col.dtype, without_separators(value))
      [] col.dtype = "boolean" ->
            IF value.k = "bool" THEN Converted("none", value)
            ELSE IF value.k = "str"
            THEN Converted("none",
                           PyBool(Lower(Chars[value.s]) \in TrueWords))
            ELSE Converted("none", PyBool(bool(value)))
      [] col.dtype \in {"date", "datetime"} ->
            \* isinstance(value, date) holds of a datetime as well
            IF value.k = "datetime" \/ (col.dtype = "date" /\ value.k = "date")
            THEN Converted("none", value)
            ELSE IF value.k = "str"
            THEN from_date_string(col, value, to_datetime, col.dtype = "date")
            ELSE Converted("none", value)
      [] col.dtype \in {"json", "array"} ->
            IF value.k = "str"
            THEN from_json_string(col.dtype, value, json_loads(Chars[value.s]))
            ELSE IF col.dtype = "json" THEN Converted("none", value)
            ELSE IF value.k # "list" THEN Converted("none", PyList(<<value>>))
            ELSE IF col.array_item_type # "none"
            THEN convert_items(Column("item", col.array_item_type),
                               value.items, to_datetime)
            ELSE Converted("none", value)

\* `except (ValueError, TypeError): return value` around the try block; any
\* other exception reaches the caller.
caught(col, value, tried) ==
    IF tried.exc \in {"ValueError", "TypeError"}
    THEN Converted("none",
                   IF col.dtype \in {"integer", "number"} THEN tried.v
                   ELSE value)
    ELSE tried

\* Column.convert_value
convert_value(col, value, to_datetime) ==
    IF value = PyNone THEN Converted("none", on_none(col))
    ELSE caught(col, value, try_block(col, value, to_datetime))

\* Schema.get_column_names
get_column_names(schema) ==
    PyList([i \in 1..Len(schema.columns) |-> PyStr(schema.columns[i].name)])

\* self._column_map.get(name): the last column of that name, or None
HasColumn(schema, name) ==
    \E i \in 1..Len(schema.columns) : schema.columns[i].name = name
get_column(schema, name) ==
    schema.columns[CHOOSE i \in 1..Len(schema.columns) :
                      /\ schema.columns[i].name = name
                      /\ \A j \in 1..Len(schema.columns) :
                            schema.columns[j].name = name => j <= i]

\* The elements that iterating over a value yields; a string yields its
\* characters.
Elements(values) ==
    IF values.k = "str"
    THEN [j \in 1..Len(Chars[values.s]) |-> PyStr(Str(<<Chars[values.s][j]>>))]
    ELSE values.items

\* The dict named converted, or the exception of a conversion.
converted(keys, cells) ==
    IF cells.exc # "none" THEN cells
    ELSE Converted("none", PyDict(keys, cells.v.items))

\* A faulty convert_data: the keys that name no column of the schema are
\* left out of the result.
convert_data_of_schema_columns(schema, data) ==
    IF data.k # "dict" THEN Converted("AttributeError", PyNone)
    ELSE IF \E i \in 1..Len(data.keys) :
               /\ HasColumn(schema, data.keys[i])
               /\ data.vals[i].k \notin {"list", "tuple", "str"}
    THEN Converted("TypeError", PyNone)
    ELSE LET known == SelectSeq([i \in 1..Len(data.keys) |-> i],
                                LAMBDA i : HasColumn(schema, data.keys[i]))
         IN converted([n \in 1..Len(known) |-> data.keys[known[n]]],
                      gathered([n \in 1..Len(known) |->
                          convert_items(get_column(schema, data.keys[known[n]]),
                                        Elements(data.vals[known[n]]),
                                        NoPandas)]))

\* Schema.convert_data: data.items() needs a dict, and the values of a
\* column of the schema are iterated over.  The schemas of the client's
\* calls have no column of a date type: pandas is not reached.
convert_data(schema, data) ==
    IF data.k # "dict" THEN Converted("AttributeError", PyNone)
    ELSE IF \E i \in 1..Len(data.keys) :
               /\ HasColumn(schema, data.keys[i])
               /\ data.vals[i].k \notin {"list", "tuple", "str"}
    THEN Converted("TypeError", PyNone)
    ELSE converted(data.keys,
                   gathered([i \in 1..Len(data.keys) |->
                       IF HasColumn(schema, data.keys[i])
                       THEN convert_items(get_column(schema, data.keys[i]),
                                          Elements(data.vals[i]), NoPandas)
                       ELSE Converted("none", data.vals[i])]))

(***************************************************************************)
(* The upstream API as OpenRouterClient sees it (fundas/core.py).  What    *)
(* requests.post does at each attempt is an input: it returns a response   *)
(* whose json() is body, or raises HTTPError for a status, or raises       *)
(* another RequestException.  truthy is the truth value of e.response: a   *)
(* requests.Response is true only when its status is below 400, so the     *)
(* response of an HTTPError raised by raise_for_status is false; a mock    *)
(* object standing for the response is true.                               *)
(***************************************************************************)
Ok(body) == [kind |-> "ok", body |-> body]
HTTPError(status, truthy) ==
    [kind |-> "HTTPError", status |-> status, truthy |-> truthy]
Timeout == [kind |-> "Timeout"]

OpenRouterClient(use_cache, cache, max_retries, retry_delay) ==
    [k |-> "OpenRouterClient", use_cache |-> use_cache, cache |-> cache,
     model |-> "m", max_retries |-> max_retries, retry_delay |-> retry_delay]

\* What a call has done, in order: its upstream requests, its sleeps and
\* its calls of the cache, the parser, the normalizer and the schema.
Event(e, n) == [e |-> e, n |-> n]
Requests(trace) == Cardinality({i \in 1..Len(trace) : trace[i].e = "request"})
RECURSIVE Slept(_)
Slept(trace) ==
    IF trace = <<>> THEN 0
    ELSE (IF Head(trace).e = "sleep" THEN Head(trace).n ELSE 0)
         + Slept(Tail(trace))

\* The result of process_content: the response, or the exception raised,
\* with the text its message starts with and the error it was raised from.
Reply(ret, exc, text, cause, trace) ==
    [ret |-> ret, exc |-> exc, text |-> text, cause |-> cause, trace |-> trace]

\* The status tests of the except clause: the message of the ValueError to
\* raise, or "none" when the error is kept as last_exception.
permanent(e) ==
    IF e.kind # "HTTPError" THEN "none"
    ELSE IF e.truthy /\ e.status = 400 THEN "Invalid request"
    ELSE IF e.truthy /\ e.status = 401 THEN "Invalid API key"
    ELSE IF e.truthy /\ e.status = 404 THEN "Model not found"
    ELSE "none"

\* A faulty backoff: the same delay after every failure.
backoff_constant(c, attempt) == c.retry_delay

\* time.sleep(self.retry_delay * (attempt + 1))
backoff(c, attempt) == c.retry_delay * (attempt + 1)

\* for attempt in range(self.max_retries): ..., from the given attempt on.
\* upstream[attempt + 1] is what requests.post does at that attempt.
RECURSIVE attempts(_, _, _, _, _)
attempts(c, upstream, attempt, trace, text) ==
    IF attempt >= c.max_retries
    THEN Reply(PyNone, "RuntimeError", text,
               IF attempt = 0 THEN PyNone ELSE upstream[attempt], trace)
    ELSE
    LET e == upstream[attempt + 1]
        requested == Append(trace, Event("request", attempt + 1))
    IN
    IF e.kind = "ok" THEN Reply(e.body, "none", "", PyNone, requested)
    ELSE IF permanent(e) # "none"
    THEN Reply(PyNone, "ValueError", permanent(e), e, requested)
    ELSE attempts(c, upstream, attempt + 1,
                  IF attempt < c.max_retries - 1
                  THEN Append(requested, Event("sleep", backoff(c, attempt)))
                  ELSE requested,
                  text)

process_content_outcome(c, upstream) ==
    attempts(c, upstream, 0, <<>>, "Error communicating with OpenRouter API")

process_content_with_image_outcome(c, upstream) ==
    attempts(c, upstream, 0, <<>>, "Error communicating with OpenRouter API")

\* exists: the audio file is there.
process_content_with_audio_outcome(c, exists, upstream) ==
    IF ~exists THEN Reply(PyNone, "FileNotFoundError", "", PyNone, <<>>)
    ELSE attempts(c, upstream, 0, <<>>, "Error processing audio")

\* The bodies of the model: no choices, an empty list of choices, a choice
\* whose message has no content, and a choice with the given content.
NoChoices == PyDict(<<>>, <<>>)
EmptyChoices == PyDict(<<"choices">>, <<PyList(<<>>)>>)
ContentAbsent ==
    PyDict(<<"choices">>,
           <<PyList(<<PyDict(<<"message">>, <<PyDict(<<>>, <<>>)>>)>>)>>)
Completion(content) ==
    PyDict(<<"choices">>,
           <<PyList(<<PyDict(<<"message">>,
                             <<PyDict(<<"content">>, <<content>>)>>)>>)>>)

DictHas(d, key) == \E i \in 1..Len(d.keys) : d.keys[i] = key

\* "choices" in response and len(response["choices"]) > 0
has_choices(response) ==
    DictHas(response, "choices")
        /\ Len(DictGet(response, "choices", PyNone).items) > 0

Read(exc, v) == [exc |-> exc, v |-> v]

\* response["choices"][0]["message"]["content"]
response_text(response) ==
    LET choice == DictGet(response, "choices", PyNone).items[1] IN
    IF ~DictHas(choice, "message") THEN Read("KeyError", PyNone)
    ELSE LET message == DictGet(choice, "message", PyNone) IN
         IF ~DictHas(message, "content") THEN Read("KeyError", PyNone)
         ELSE Read("none", DictGet(message, "content", PyNone))

\* The try block of the extraction methods: json.loads of the payload and,
\* for a dict, the padding; on JSONDecodeError the whole text as the only
\* cell of a column named content.  image tells the image method's padding.
read_completion(text, image) ==
    LET loaded == json_loads(json_str(Chars[text.s])) IN
    IF ~loaded.ok
    THEN [branch |-> "fallback", loaded |-> PyNone,
          data |-> PyDict(<<"content">>, <<PyList(<<text>>)>>)]
    ELSE [branch |-> "parsed", loaded |-> loaded.v,
          data |-> IF loaded.v.k # "dict" THEN loaded.v
                   ELSE IF image THEN normalized_data_image(loaded.v)
                   ELSE normalized_data(loaded.v)]

\* What is returned for a response without choices.
NoResponse ==
    PyDict(<<"content">>, <<PyList(<<PyStr("No response from API")>>)>>)

(***************************************************************************)
(* The arguments of get and set, and the values the model draws them from. *)
(***************************************************************************)
Arg(content, prompt, model, columns) ==
    [content |-> content, prompt |-> prompt, model |-> model,
     columns |-> columns]

ColsNone == PyNone
ColsEmpty == PyList(<<>>)
ColsA == PyList(<<PyStr("a")>>)
ColsAB == PyList(<<PyStr("a"), PyStr("b")>>)
ColsBA == PyList(<<PyStr("b"), PyStr("a")>>)

\* The argument tuples of the cache's state machine.
Args == {Arg("c", "p", "m", ColsNone), Arg("c", "p", "m", ColsA)}

\* The argument tuples of the key specification: each differs from the first
\* in one field, in None versus a list, or in the order of the columns.
KeyArgs ==
    { Arg("c", "p", "m", ColsNone), Arg("c2", "p", "m", ColsNone),
      Arg("c", "p2", "m", ColsNone), Arg("c", "p", "m2", ColsNone),
      Arg("c", "p", "m", ColsEmpty), Arg("c", "p", "m", ColsAB),
      Arg("c", "p", "m", ColsBA) }

NoArgs == Arg("", "", "", PyNone)

\* Payloads passed to set: two JSON tables, a table holding a tuple (json
\* writes it as a list) and a table holding a value json cannot write.
DataJohn == PyDict(<<"name">>, <<PyList(<<PyStr("John")>>)>>)
DataAnn == PyDict(<<"name">>, <<PyList(<<PyStr("Ann"), PyNone>>)>>)
DataTuple == PyDict(<<"name">>, <<PyTuple(<<PyStr("John")>>)>>)
DataObject == PyDict(<<"name">>, <<PyList(<<PyObject>>)>>)
Payloads == {DataJohn, DataAnn, DataTuple, DataObject}

RECURSIVE IsJson(_)
\* v is made of JSON's own types only: json.load can return it.
IsJson(v) ==
    CASE v.k \in {"None", "int", "str"} -> TRUE
      [] v.k = "list" -> \A i \in 1..Len(v.items) : IsJson(v.items[i])
      [] v.k = "dict" -> \A i \in 1..Len(v.vals) : IsJson(v.vals[i])
      [] OTHER -> FALSE

\* Records another writer can leave in the directory.
Malformed == <<TJunk>>
NonObject == <<Punct("["), Punct("]")>>
BadTimestamp ==
    JsonEncode(PyDict(<<"timestamp", "data">>, <<PyStr("x"), DataJohn>>)).text
ForeignTexts == {Malformed, NonObject, BadTimestamp}

(***************************************************************************)
(* The inputs of the client's extraction methods.  There is one prompt and *)
(* one model; the content of the text and image methods is the string the  *)
(* audio method makes of its file's path, so that the methods meet in the  *)
(* cache.  The two schemas have the same name and the same column names:   *)
(* they differ in the types.                                               *)
(***************************************************************************)
AudioPath == "c"
\* cache_key = f"audio:{audio_filepath}"
audio_cache_key(audio_filepath) == Str(Chars["audio:"] \o Chars[audio_filepath])
\* The content of the text and image methods: audio_cache_key(AudioPath)
ClientContent == "audio:c"

SchemaInt ==
    Schema(<<Column("age", "integer"), Column("content", "integer")>>, "s")
SchemaStr ==
    Schema(<<Column("age", "string"), Column("content", "string")>>, "s")
Schemas == {SchemaInt, SchemaStr}

\* cache_key_columns = columns + [f"__schema:{schema.name}"]
cache_key_columns(schema) ==
    PyList(get_column_names(schema).items
           \o <<PyStr(Str(Chars["__schema:"] \o Chars[schema.name]))>>)

\* The columns arguments: the column names of the schemas, and the same
\* followed by a string that reads like the schema's marker.
ColsAgeContent == PyList(<<PyStr("age"), PyStr("content")>>)
ColsMarked ==
    PyList(<<PyStr("age"), PyStr("content"), PyStr("__schema:s")>>)
ClientColumns == {ColsAgeContent, ColsMarked}

\* The argument tuples of the client's calls of the cache; the columns of
\* the schemas' tuple are cache_key_columns(schema), which is ColsMarked.
ClientArgs == {Arg(ClientContent, "p", "m", cols) : cols \in ClientColumns}

\* The completion texts: an object with a value that is not a list, a text
\* that is not JSON, and the JSON null.
TextAge == "{\"age\": \"30\"}"
TextThousand == "1,000"
TextNull == "null"
CompletionTexts == {TextAge, TextThousand, TextNull}

ReadCompletion ==
    [t \in CompletionTexts, image \in BOOLEAN |->
        read_completion(PyStr(t), image)]
\* The data of the model's completions, as read and as converted under the
\* schemas: what the client passes to cache.set.
AgeString == PyDict(<<"age">>, <<PyList(<<PyStr("30")>>)>>)
AgeInteger == PyDict(<<"age">>, <<PyList(<<PyInt(30)>>)>>)
ContentString == PyDict(<<"content">>, <<PyList(<<PyStr("1,000")>>)>>)
ContentInteger == PyDict(<<"content">>, <<PyList(<<PyInt(1000)>>)>>)
TablePayloads ==
    {AgeString, AgeInteger, ContentString, ContentInteger, PyNone}

\* schema.convert_data(data), computed once for the schemas and the data of
\* the model.
ConvertData ==
    [schema \in Schemas, data \in TablePayloads |-> convert_data(schema, data)]

Bodies ==
    {NoChoices, EmptyChoices, ContentAbsent, Completion(PyNone)}
        \cup {Completion(PyStr(t)) : t \in CompletionTexts}

(***************************************************************************)
(* State.                                                                  *)
(***************************************************************************)
VARIABLES
    files,      \* cache_dir: file name -> file text, for the files present
    enabled,    \* APICache.enabled
    ttl,        \* APICache.ttl
    now,        \* time.time()
    last,       \* the last call: its arguments, result and branch taken
    lastSet,    \* history: argument tuple -> the data and the time of the
                \* last set that stored a record for it, until a clear or
                \* another writer's record for it
    global_cache,   \* cache.py's _global_cache: None or the APICache that
                    \* get_cache made; files, enabled and ttl are then its
    client      \* the OpenRouterClient in use, or None before there is one

vars == <<files, enabled, ttl, now, last, lastSet, global_cache, client>>
clientVars == <<global_cache, client>>

\* The result of a call as the caller sees it, and the branch that produced
\* it; stuck is the set of files a sweep could not delete; after is, for a
\* get that directly follows a get with the same arguments, the branch that
\* get took; for a set, what the file of the key held when the set began;
\* and for a get that directly follows a set with the same arguments, what
\* that set found.
Call(op, args, ret, exc, branch, stuck) ==
    [op |-> op, args |-> args, ret |-> ret, exc |-> exc, branch |-> branch,
     stuck |-> stuck, after |-> "none"]

Remove(fs, name) == [n \in DOMAIN fs \ {name} |-> fs[n]]
\* A faulty unlink: the file is left where it is.
unlink_noop(fs, name) == fs

\* cache_file.unlink()
unlink(fs, name) == Remove(fs, name)
Store(fs, name, text) ==
    [n \in DOMAIN fs \cup {name} |-> IF n = name THEN text ELSE fs[n]]

\* A faulty key_string: the columns are left out of the key.
key_string_no_columns(a) ==
    JsonEncode(PyDict(<<"content", "model", "prompt">>,
                      <<PyStr(a.content), PyStr(a.model), PyStr(a.prompt)>>)).text

\* json.dumps(key_data, sort_keys=True): the four keys in sorted order.
key_string(a) ==
    JsonEncode(PyDict(<<"columns", "content", "model", "prompt">>,
                      <<a.columns, PyStr(a.content), PyStr(a.model),
                        PyStr(a.prompt)>>)).text

RECURSIVE SetToSeq(_)
SetToSeq(S) ==
    IF S = {} THEN <<>>
    ELSE LET x == CHOOSE y \in S : TRUE IN <<x>> \o SetToSeq(S \ {x})

\* hashlib.sha256(...).hexdigest(): the digest is taken to be free of
\* collisions.  A digest is the number of its string in an enumeration of
\* the key strings the model can form.
KeyStrings ==
    SetToSeq({key_string(a) : a \in Args \cup KeyArgs \cup ClientArgs})
Sha256Hex(string) == CHOOSE i \in 1..Len(KeyStrings) : KeyStrings[i] = string

_generate_key(a) == Sha256Hex(key_string(a))

\* cache_dir / f"{cache_key}.json", computed once for every argument tuple.
FileNames == [a \in Args \cup KeyArgs \cup ClientArgs |-> _generate_key(a)]
cache_file(a) == FileNames[a]

\* json.load and json.dump of the records the model can hold, computed once.
cache_entry(timestamp, data) ==
    PyDict(<<"timestamp", "data">>, <<PyInt(timestamp), data>>)
\* A call of the client that sleeps can reach its cache.set after MaxTime;
\* the step is then not taken.
MaxStamp == MaxTime + ClientRetries
Dumped ==
    [t \in 0..MaxStamp, d \in Payloads \cup TablePayloads |->
        JsonEncode(cache_entry(t, d))]
Texts ==
    {Dumped[t, d].text : t \in 0..MaxStamp, d \in Payloads \cup TablePayloads}
        \cup ForeignTexts \cup {<<>>}
Loaded == [text \in Texts |-> JsonLoad(text)]

\* Two faulty Expired: an entry aged exactly ttl counts as expired; an entry
\* one tick older than ttl does not.
ExpiredAtTtl(current_time, timestamp) == current_time - timestamp >= ttl
ExpiredLate(current_time, timestamp) == current_time - timestamp > ttl + 1

\* time.time() - timestamp > self.ttl
Expired(current_time, timestamp) == current_time - timestamp > ttl

Init ==
    /\ files = <<>>
    /\ enabled = TRUE
    /\ ttl = TestTtl
    /\ now = 0
    /\ last = Call("init", NoArgs, PyNone, "none", "init", {})
    /\ lastSet = <<>>
    /\ global_cache = PyNone
    /\ client = PyNone

(***************************************************************************)
(* APICache.get.  f is the I/O fault the call meets: "none", "read" (the   *)
(* file cannot be opened or read) or "unlink" (it cannot be deleted).      *)
(***************************************************************************)
GetFaults == {"none", "read", "unlink"}

Outcome(ret, exc, branch, fs) ==
    [ret |-> ret, exc |-> exc, branch |-> branch, files |-> fs]

\* A faulty hit: the record is rewritten with the current time.
hit_touch(name, cached_data) ==
    Outcome(DictGet(cached_data, "data", PyNone), "none", "hit",
            Store(files, name,
                  JsonEncode(cache_entry(now, DictGet(cached_data, "data",
                                                      PyNone))).text))

\* return cached_data.get("data")
hit(name, cached_data) ==
    Outcome(DictGet(cached_data, "data", PyNone), "none", "hit", files)

get_outcome(a, f) ==
    LET name == cache_file(a) IN
    IF ~enabled THEN Outcome(PyNone, "none", "disabled", files)
    ELSE IF name \notin DOMAIN files
    THEN Outcome(PyNone, "none", "absent", files)
    ELSE IF f = "read" THEN Outcome(PyNone, "none", "ioerror", files)
    ELSE LET loaded == Loaded[files[name]] IN
    IF ~loaded.ok THEN Outcome(PyNone, "none", "corrupt", files)
    ELSE IF loaded.v.k # "dict"
    THEN Outcome(PyNone, "AttributeError", "raised", files)
    ELSE LET timestamp == DictGet(loaded.v, "timestamp", PyInt(0)) IN
    IF timestamp.k # "int" THEN Outcome(PyNone, "TypeError", "raised", files)
    ELSE IF Expired(now, timestamp.n)
    THEN IF f = "unlink" THEN Outcome(PyNone, "none", "ioerror", files)
         ELSE Outcome(PyNone, "none", "expired", unlink(files, name))
    ELSE hit(name, loaded.v)

get(a, f) ==
    LET r == get_outcome(a, f) IN
    /\ files' = r.files
    /\ last' = [Call("get", a, r.ret, r.exc, r.branch, {}) EXCEPT
                   !.after = IF last.op = "get" /\ last.args = a
                             THEN last.branch
                             ELSE IF last.op = "set" /\ last.args = a
                             THEN last.after
                             ELSE "none"]
    /\ UNCHANGED <<enabled, ttl, now, lastSet, clientVars>>

(***************************************************************************)
(* APICache.set.  f is the I/O fault the call meets: "none", "open" (the   *)
(* file cannot be opened for writing) or "write" (the file was opened, and *)
(* so truncated, and the write failed).  A failed write leaves the empty   *)
(* text: like every proper prefix of a record, it does not decode.         *)
(***************************************************************************)
SetFaults == {"none", "open", "write"}

\* A faulty set_outcome: the enabled flag is not consulted.
set_outcome_always(a, data, f) ==
    LET name == cache_file(a)
        dumped == Dumped[now, data]
    IN
    IF f = "open" THEN Outcome(PyNone, "none", "ioerror", files)
    ELSE IF f = "write"
    THEN Outcome(PyNone, "none", "ioerror", Store(files, name, <<>>))
    ELSE IF ~dumped.ok
    THEN Outcome(PyNone, "TypeError", "raised", Store(files, name, dumped.text))
    ELSE Outcome(PyNone, "none", "written", Store(files, name, dumped.text))

\* set when time.time() returns t
set_outcome_at(t, a, data, f) ==
    LET name == cache_file(a)
        dumped == Dumped[t, data]
    IN
    IF ~enabled THEN Outcome(PyNone, "none", "disabled", files)
    ELSE IF f = "open" THEN Outcome(PyNone, "none", "ioerror", files)
    ELSE IF f = "write"
    THEN Outcome(PyNone, "none", "ioerror", Store(files, name, <<>>))
    ELSE IF ~dumped.ok
    THEN Outcome(PyNone, "TypeError", "raised", Store(files, name, dumped.text))
    ELSE Outcome(PyNone, "none", "written", Store(files, name, dumped.text))

\* A faulty set_outcome: a record that is there keeps its timestamp, and
\* only its data are replaced.
set_outcome_in_place(a, data, f) ==
    LET name == cache_file(a) IN
    IF /\ name \in DOMAIN files
       /\ Loaded[files[name]].ok
       /\ Loaded[files[name]].v.k = "dict"
       /\ DictGet(Loaded[files[name]].v, "timestamp", PyInt(0)).k = "int"
    THEN set_outcome_at(DictGet(Loaded[files[name]].v, "timestamp",
                                PyInt(0)).n, a, data, f)
    ELSE set_outcome_at(now, a, data, f)

set_outcome(a, data, f) == set_outcome_at(now, a, data, f)

\* What the file of the key holds when a set begins: nothing, a record
\* older than ttl, or any other text.
held(name) ==
    IF name \notin DOMAIN files THEN "none"
    ELSE LET l == Loaded[files[name]] IN
         IF /\ l.ok
            /\ l.v.k = "dict"
            /\ DictGet(l.v, "timestamp", PyInt(0)).k = "int"
            /\ Expired(now, DictGet(l.v, "timestamp", PyInt(0)).n)
         THEN "stale"
         ELSE "present"

set(a, data, f) ==
    LET r == set_outcome(a, data, f) IN
    /\ files' = r.files
    /\ last' = [Call("set", a, r.ret, r.exc, r.branch, {}) EXCEPT
                   !.after = held(cache_file(a))]
    /\ lastSet' =
          IF r.branch = "written"
          THEN Store(lastSet, a, [data |-> data, time |-> now])
          ELSE IF r.files = files THEN lastSet ELSE Remove(lastSet, a)
    /\ UNCHANGED <<enabled, ttl, now, clientVars>>

(***************************************************************************)
(* APICache.clear.  stuck is the set of files whose unlink fails.          *)
(***************************************************************************)
\* A faulty clear_outcome: a file whose unlink fails is counted too.
clear_outcome_count_all(stuck) ==
    [files |-> [n \in DOMAIN files \cap stuck |-> files[n]],
     count |-> Cardinality(DOMAIN files)]

clear_outcome(stuck) ==
    [files |-> [n \in DOMAIN files \cap stuck |-> files[n]],
     count |-> Cardinality(DOMAIN files \ stuck)]

clear(stuck) ==
    LET r == clear_outcome(stuck) IN
    /\ files' = r.files
    /\ last' = Call("clear", NoArgs, PyInt(r.count), "none", "swept",
                    DOMAIN files \cap stuck)
    /\ lastSet' = <<>>
    /\ UNCHANGED <<enabled, ttl, now, clientVars>>

(***************************************************************************)
(* APICache.clear_expired.  order is the order in which glob yields the    *)
(* files, stuck the set of files whose unlink fails, and drift the time    *)
(* that passes while the sweep runs.                                       *)
(***************************************************************************)
\* A faulty current_time: the clock is read again for every file after the
\* first.
current_time_per_file(i, drift) == IF i > 1 THEN now + drift ELSE now

\* current_time = time.time(), taken once before the loop: the time the
\* i-th file is compared with.
current_time(i, drift) == now

Sweep(fs, count, exc) == [files |-> fs, count |-> count, exc |-> exc]

RECURSIVE sweep_expired(_, _, _, _, _, _)
sweep_expired(order, i, fs, count, stuck, drift) ==
    IF i > Len(order) THEN Sweep(fs, count, "none")
    ELSE
    LET name == order[i]
        loaded == Loaded[fs[name]]
        \* unlink; when it fails, the handler's second unlink fails too
        unlinked ==
            IF name \in stuck
            THEN sweep_expired(order, i + 1, fs, count, stuck, drift)
            ELSE sweep_expired(order, i + 1, unlink(fs, name), count + 1,
                               stuck, drift)
    IN
    IF ~loaded.ok THEN unlinked
    ELSE IF loaded.v.k # "dict" THEN Sweep(fs, count, "AttributeError")
    ELSE LET timestamp == DictGet(loaded.v, "timestamp", PyInt(0)) IN
    IF timestamp.k # "int" THEN Sweep(fs, count, "TypeError")
    ELSE IF Expired(current_time(i, drift), timestamp.n) THEN unlinked
    ELSE sweep_expired(order, i + 1, fs, count, stuck, drift)

\* The orders in which a directory listing can yield the files of S.
Orders(S) ==
    { o \in [1..Cardinality(S) -> S] :
        \A i, j \in 1..Cardinality(S) : o[i] = o[j] => i = j }

clear_expired(order, stuck, drift) ==
    LET r == sweep_expired(order, 1, files, 0, stuck, drift) IN
    /\ now + drift <= MaxTime
    /\ now' = now + drift
    /\ files' = r.files
    /\ last' = Call("clear_expired", NoArgs,
                    IF r.exc = "none" THEN PyInt(r.count) ELSE PyNone, r.exc,
                    IF r.exc = "none" THEN "swept" ELSE "raised",
                    DOMAIN files \cap stuck)
    /\ UNCHANGED <<enabled, ttl, lastSet, clientVars>>

disable ==
    /\ enabled' = FALSE
    /\ last' = Call("disable", NoArgs, PyNone, "none", "done", {})
    /\ UNCHANGED <<files, ttl, now, lastSet, clientVars>>

enable ==
    /\ enabled' = TRUE
    /\ last' = Call("enable", NoArgs, PyNone, "none", "done", {})
    /\ UNCHANGED <<files, ttl, now, lastSet, clientVars>>

(***************************************************************************)
(* The environment: the clock, and writers other than this cache object.   *)
(***************************************************************************)
\* Time passes; history entries that have outlived ttl are forgotten.
Tick ==
    /\ now < MaxTime
    /\ now' = now + 1
    /\ lastSet' = [n \in {m \in DOMAIN lastSet : now' - lastSet[m].time <= ttl}
                     |-> lastSet[n]]
    /\ last' = Call("tick", NoArgs, PyNone, "none", "done", {})
    /\ UNCHANGED <<files, enabled, ttl, clientVars>>

\* Another writer leaves a record the cache did not write under a cache
\* file's name.
ExternalWrite(a, text) ==
    /\ files' = Store(files, cache_file(a), text)
    /\ lastSet' = Remove(lastSet, a)
    /\ last' = Call("external", a, PyNone, "none", "done", {})
    /\ UNCHANGED <<enabled, ttl, now, clientVars>>

\* The cache on a file system that meets no I/O fault.
Next ==
    \/ \E a \in Args : get(a, "none")
    \/ \E a \in Args, data \in Payloads : set(a, data, "none")
    \/ clear({})
    \/ \E order \in Orders(DOMAIN files), drift \in {0, 1} :
          clear_expired(order, {}, drift)
    \/ disable
    \/ enable
    \/ Tick
    \/ \E a \in Args, text \in ForeignTexts : ExternalWrite(a, text)

Spec == Init /\ [][Next]_vars

\* The cache on a file system where any open, read, write or unlink can fail.
NextIO ==
    \/ \E a \in Args, f \in GetFaults : get(a, f)
    \/ \E a \in Args, data \in Payloads : set(a, data, "none")
    \/ \E a \in Args, f \in SetFaults : set(a, DataJohn, f)
    \/ \E stuck \in SUBSET DOMAIN files : clear(stuck)
    \/ \E order \in Orders(DOMAIN files), stuck \in SUBSET DOMAIN files,
          drift \in {0, 1} : clear_expired(order, stuck, drift)
    \/ disable
    \/ enable
    \/ Tick
    \/ \E a \in Args, text \in ForeignTexts : ExternalWrite(a, text)

SpecIO == Init /\ [][NextIO]_vars

\* The key specification: set and get over the wider set of argument tuples.
NextKey ==
    \/ \E a \in KeyArgs : get(a, "none")
    \/ \E a \in KeyArgs, data \in {DataJohn, DataAnn} :
          /\ \/ cache_file(a) \in DOMAIN files
             \/ Cardinality(DOMAIN files) < MaxKeyFiles
          /\ set(a, data, "none")

SpecKey == Init /\ [][NextKey]_vars

(***************************************************************************)
(* The process-wide cache and the client (fundas/cache.py get_cache,       *)
(* fundas/core.py OpenRouterClient).  A call of the client is one step: it *)
(* reads the cache, asks the upstream API, reads the completion, writes    *)
(* the cache and returns.                                                  *)
(***************************************************************************)
DefaultDir == "~/.fundas/cache"

\* APICache(cache_dir=cache_dir, ttl=ttl); serial tells the objects apart.
APICache(serial, cache_dir, ttl_arg) ==
    [k |-> "APICache", serial |-> serial,
     cache_dir |-> IF cache_dir = PyNone THEN PyStr(DefaultDir) ELSE cache_dir,
     ttl |-> ttl_arg]

\* A faulty get_cache_outcome: every call makes a new object.
get_cache_outcome_anew(cache_dir, ttl_arg) ==
    APICache(IF global_cache = PyNone THEN 1 ELSE global_cache.serial + 1,
             cache_dir, ttl_arg)

\* get_cache: the object that _global_cache names after the call.
get_cache_outcome(cache_dir, ttl_arg) ==
    IF global_cache = PyNone THEN APICache(1, cache_dir, ttl_arg)
    ELSE global_cache

\* The record of a call of the client or of get_cache: the fields of Call,
\* and the call's input, its trace, and the message and the cause of the
\* exception it raised.
ClientCall(op, input, args, ret, exc, branch, trace, text, cause) ==
    [op |-> op, args |-> args, ret |-> ret, exc |-> exc, branch |-> branch,
     stuck |-> {}, after |-> "none", input |-> input, trace |-> trace,
     text |-> text, cause |-> cause]

get_cache(cache_dir, ttl_arg) ==
    LET made == get_cache_outcome(cache_dir, ttl_arg) IN
    /\ global_cache' = made
    /\ ttl' = made.ttl
    /\ enabled' = IF global_cache = PyNone THEN TRUE ELSE enabled
    /\ last' = ClientCall("get_cache",
                          [cache_dir |-> cache_dir, ttl |-> ttl_arg], NoArgs,
                          made, "none", "done", <<>>, "", PyNone)
    /\ UNCHANGED <<files, now, lastSet, client>>

\* OpenRouterClient.__init__; api_key tells whether a key is passed or set
\* in the environment.
__init__(api_key, use_cache, cache_ttl, max_retries, retry_delay) ==
    LET made == IF use_cache THEN get_cache_outcome(PyNone, cache_ttl)
                ELSE global_cache
        input == [api_key |-> api_key, use_cache |-> use_cache,
                  cache_ttl |-> cache_ttl, max_retries |-> max_retries,
                  retry_delay |-> retry_delay]
    IN
    IF ~api_key
    THEN /\ last' = ClientCall("__init__", input, NoArgs, PyNone,
                               "ValueError", "raised", <<>>,
                               "OpenRouter API key is required", PyNone)
         /\ UNCHANGED <<files, enabled, ttl, now, lastSet, clientVars>>
    ELSE /\ global_cache' = made
         /\ ttl' = IF made = PyNone THEN ttl ELSE made.ttl
         /\ enabled' = IF use_cache /\ global_cache = PyNone THEN TRUE
                       ELSE enabled
         /\ client' = OpenRouterClient(use_cache,
                                       IF use_cache THEN made ELSE PyNone,
                                       max_retries, retry_delay)
         /\ last' = ClientCall("__init__", input, NoArgs, PyNone, "none",
                               "done", <<>>, "", PyNone)
         /\ UNCHANGED <<files, now, lastSet>>

\* The upstream sequences a call of a request method can meet: one outcome
\* for each attempt the client may make, of which at most one is not a
\* timeout.
Outcomes ==
    {Ok(NoChoices), Timeout, HTTPError(500, FALSE), HTTPError(401, FALSE)}
        \cup {HTTPError(status, TRUE) : status \in {400, 401, 404}}
\* n attempts that time out, but for the j-th, which meets e.
At(n, j, e) == [i \in 1..n |-> IF i = j THEN e ELSE Timeout]
Upstreams(c) ==
    {At(c.max_retries, j, e) : j \in 0..c.max_retries, e \in Outcomes}

\* A direct call of one of the three request methods; the sleeps of the
\* call move the clock.
request(op, upstream, reply) ==
    /\ now + Slept(reply.trace) <= MaxClock
    /\ now' = now + Slept(reply.trace)
    /\ last' = ClientCall(op, [client |-> client, upstream |-> upstream],
                          NoArgs, reply.ret, reply.exc,
                          IF reply.exc = "none" THEN "done" ELSE "raised",
                          reply.trace, reply.text, reply.cause)
    /\ UNCHANGED <<files, enabled, ttl, lastSet, clientVars>>

process_content(upstream) ==
    /\ client # PyNone
    /\ request("process_content", upstream,
               process_content_outcome(client, upstream))

process_content_with_image(upstream) ==
    /\ client # PyNone
    /\ request("process_content_with_image", upstream,
               process_content_with_image_outcome(client, upstream))

process_content_with_audio(exists, upstream) ==
    /\ client # PyNone
    /\ request("process_content_with_audio", upstream,
               process_content_with_audio_outcome(client, exists, upstream))

\* The singleton, the construction of clients and their request methods.
NextRequest ==
    \/ \E cache_dir \in {PyNone, PyStr("d")}, ttl_arg \in {TestTtl, TestTtl + 1} :
          get_cache(cache_dir, ttl_arg)
    \/ \E use_cache \in BOOLEAN, cache_ttl \in {TestTtl, TestTtl + 1},
          max_retries \in 0..MaxRetries, retry_delay \in 1..MaxDelay :
          __init__(TRUE, use_cache, cache_ttl, max_retries, retry_delay)
    \/ __init__(FALSE, TRUE, TestTtl, MaxRetries, MaxDelay)
    \/ /\ client # PyNone
       /\ \E upstream \in Upstreams(client) : process_content(upstream)
    \/ /\ client # PyNone
       /\ \E upstream \in Upstreams(client) :
             process_content_with_image(upstream)
    \/ /\ client # PyNone
       /\ \E exists \in BOOLEAN, upstream \in Upstreams(client) :
             process_content_with_audio(exists, upstream)

SpecRequest == Init /\ [][NextRequest]_vars

(***************************************************************************)
(* The extraction methods of OpenRouterClient.  method is "text", "schema",*)
(* "audio" or "image"; a is the argument tuple of the cache calls; params  *)
(* is the schema of the schema method and the columns of the others.       *)
(***************************************************************************)
\* A faulty uses_cache: the process-wide cache is used whenever there is one.
uses_cache_unasked(c) == global_cache # PyNone

\* if self.use_cache and self.cache
uses_cache(c) == c.use_cache /\ c.cache # PyNone

\* The result of an extraction call: the files it leaves in the cache, and
\* in stored the data its cache.set wrote, if it wrote.
Done(ret, exc, branch, fs, trace, text, cause, stored) ==
    [ret |-> ret, exc |-> exc, branch |-> branch, files |-> fs,
     trace |-> trace, text |-> text, cause |-> cause, stored |-> stored]

\* str(e) of the ValueError of process_content: the message of status 400
\* ends with str of the HTTPError, written here as "400 Client Error", and
\* the message of status 404 with the model of the client.
str_of_error(c, reply) ==
    IF reply.text = "Invalid request"
    THEN "Invalid request: 400 Client Error"
    ELSE IF reply.text = "Model not found"
    THEN Str(Chars["Model not found: "] \o Chars[c.model])
    ELSE reply.text

\* "Invalid request" in str(e) or "400" in str(e)
structured_output_failed(msg) ==
    Contains(Chars[msg], Chars["Invalid request"])
        \/ Contains(Chars[msg], Chars["400"])

\* The request of an extraction method.  The schema method, on a ValueError
\* whose message holds "Invalid request" or "400", asks again without
\* response_format: retry is what the upstream does at the attempts of that
\* second call.
upstream_reply(c, method, exists, upstream, retry) ==
    LET first ==
            CASE method = "image" ->
                    process_content_with_image_outcome(c, upstream)
              [] method = "audio" ->
                    process_content_with_audio_outcome(c, exists, upstream)
              [] OTHER -> process_content_outcome(c, upstream)
    IN
    IF method = "schema" /\ first.exc = "ValueError"
          /\ structured_output_failed(str_of_error(c, first))
    THEN LET second == process_content_outcome(c, retry) IN
         [second EXCEPT !.trace = first.trace \o second.trace]
    ELSE first

\* The events of the try block: json.loads, the padding of a dict, and
\* cache.set and schema.convert_data in the given order.
try_events(c, method, read, order) ==
    <<Event("parse", 0)>>
        \o (IF read.branch = "parsed" /\ read.loaded.k = "dict"
            THEN <<Event("normalize", 0)>> ELSE <<>>)
        \o [i \in 1..Len(order) |-> Event(order[i], 0)]

\* The calls of the try block after the padding, in order.
after_padding(c, method, read) ==
    (IF uses_cache(c) THEN <<"cache.set">> ELSE <<>>)
        \o (IF method = "schema" /\ read.branch = "parsed"
            THEN <<"convert">> ELSE <<>>)

\* The return of the try block: wrote is the outcome of cache.set of data,
\* conv that of schema.convert_data.
returned(branch, data, wrote, conv, trace) ==
    IF wrote.exc # "none"
    THEN Done(PyNone, wrote.exc, "raised", wrote.files, trace, "", PyNone,
              <<>>)
    ELSE Done(conv.v, conv.exc, IF conv.exc = "none" THEN branch ELSE "raised",
              wrote.files, trace, "", PyNone,
              IF wrote.branch = "written" THEN <<data>> ELSE <<>>)

\* cache.set of the try block, made when the sleeps of trace have passed.
cache_set(c, a, data, got, trace) ==
    IF uses_cache(c) THEN set_outcome_at(now + Slept(trace), a, data, "none")
    ELSE Outcome(PyNone, "none", "off", got.files)

\* schema.convert_data of the try block.
coerced(method, params, read) ==
    IF method = "schema" /\ read.branch = "parsed"
    THEN ConvertData[params, read.data]
    ELSE Converted("none", read.data)

\* What a faulty try block writes to the cache: the converted data.
to_cache_coerced(conv, read) == IF conv.exc = "none" THEN conv.v ELSE read.data

\* What the try block writes to the cache: the data before conversion.
to_cache(conv, read) == read.data

\* A faulty try block: the fallback table is returned without cache.set.
completed_parsed_only(c, method, a, params, read, got, trace) ==
    IF read.branch = "fallback"
    THEN Done(read.data, "none", "fallback", got.files,
              Append(trace, Event("parse", 0)), "", PyNone, <<>>)
    ELSE returned(read.branch, read.data,
                  cache_set(c, a, read.data, got, trace),
                  coerced(method, params, read),
                  trace \o try_events(c, method, read,
                                      after_padding(c, method, read)))

\* The try block on the completion text: json.loads and the padding, or the
\* fallback table; then cache.set; then, in the schema method and when the
\* text was parsed, schema.convert_data.
completed(c, method, a, params, read, got, trace) ==
    returned(read.branch, to_cache(coerced(method, params, read), read),
             cache_set(c, a, to_cache(coerced(method, params, read), read),
                       got, trace),
             coerced(method, params, read),
             trace \o try_events(c, method, read,
                                 after_padding(c, method, read)))

\* The part of an extraction method after its request returned content.
on_content(c, method, a, params, got, trace, content) ==
    IF content.exc # "none"
    THEN Done(PyNone, content.exc, "raised", got.files, trace, "", PyNone,
              <<>>)
    \* "...json" in response_text, of a response_text that is None
    ELSE IF content.v.k # "str"
    THEN Done(PyNone, "TypeError", "raised", got.files, trace, "", PyNone,
              <<>>)
    ELSE completed(c, method, a, params,
                   ReadCompletion[content.v.s, method = "image"], got, trace)

\* A faulty on_reply: a response without choices leaves an entry without
\* data under the key of the call.
on_reply_cached(c, method, a, params, got, trace, reply) ==
    IF reply.exc # "none"
    THEN Done(PyNone, reply.exc, "raised", got.files, trace, reply.text,
              reply.cause, <<>>)
    ELSE IF ~has_choices(reply.ret)
    THEN returned("no_response", PyNone,
                  cache_set(c, a, PyNone, got, trace),
                  Converted("none", NoResponse),
                  IF uses_cache(c) THEN Append(trace, Event("cache.set", 0))
                  ELSE trace)
    ELSE on_content(c, method, a, params, got, trace,
                    response_text(reply.ret))

\* The part of an extraction method after its request.
on_reply(c, method, a, params, got, trace, reply) ==
    IF reply.exc # "none"
    THEN Done(PyNone, reply.exc, "raised", got.files, trace, reply.text,
              reply.cause, <<>>)
    ELSE IF ~has_choices(reply.ret)
    THEN Done(NoResponse, "none", "no_response", got.files, trace, "",
              PyNone, <<>>)
    ELSE on_content(c, method, a, params, got, trace,
                    response_text(reply.ret))

\* A faulty on_hit_with_schema: the cached data is returned as it is.
on_hit_uncoerced(conv, got, trace) ==
    Done(got.ret, "none", "hit", got.files,
         Append(trace, Event("convert", 0)), "", PyNone, <<>>)

\* The return of the schema method on a hit.
on_hit_with_schema(conv, got, trace) ==
    Done(conv.v, conv.exc, IF conv.exc = "none" THEN "hit" ELSE "raised",
         got.files, Append(trace, Event("convert", 0)), "", PyNone, <<>>)

\* The part of an extraction method after cache.get: got is its outcome,
\* reply that of the request, made on a miss.
on_cached_data(c, method, a, params, got, looked, reply) ==
    IF got.exc # "none"
    THEN Done(PyNone, got.exc, "raised", got.files, looked, "", PyNone, <<>>)
    ELSE IF got.ret # PyNone
    THEN IF method = "schema"
         THEN on_hit_with_schema(ConvertData[params, got.ret], got, looked)
         ELSE Done(got.ret, "none", "hit", got.files, looked, "", PyNone, <<>>)
    ELSE on_reply(c, method, a, params, got, looked \o reply.trace, reply)

\* cache.get at the head of an extraction method.
cache_get(c, a) ==
    IF uses_cache(c) THEN get_outcome(a, "none")
    ELSE Outcome(PyNone, "none", "off", files)

\* An extraction method from its first line to its return.
extract(c, method, a, params, exists, upstream, retry) ==
    on_cached_data(c, method, a, params, cache_get(c, a),
                   IF uses_cache(c) THEN <<Event("cache.get", 0)>> ELSE <<>>,
                   upstream_reply(c, method, exists, upstream, retry))

\* The history at time t: the sets that have not outlived ttl.
Kept(t) ==
    [n \in {m \in DOMAIN lastSet : t - lastSet[m].time <= ttl} |-> lastSet[n]]

\* The step of an extraction call whose outcome is r.  The sleeps of the
\* call move the clock; at is the time at which the call returns.
extraction_step(op, a, input, r) ==
    /\ now + Slept(r.trace) <= MaxTime
    /\ now' = now + Slept(r.trace)
    /\ files' = r.files
    /\ last' = [op |-> op, args |-> a, ret |-> r.ret, exc |-> r.exc,
                branch |-> r.branch, stuck |-> {}, after |-> "none",
                input |-> input, trace |-> r.trace, text |-> r.text,
                cause |-> r.cause, at |-> now']
    /\ lastSet' =
          IF r.stored # <<>>
          THEN Store(Kept(now'), a, [data |-> r.stored[1], time |-> now',
                                     by |-> [op |-> op,
                                             params |-> input.params]])
          ELSE IF r.files = files THEN Kept(now')
          ELSE Remove(Kept(now'), a)
    /\ UNCHANGED <<enabled, ttl, clientVars>>

extraction(op, method, a, params, exists, upstream, retry) ==
    /\ client # PyNone
    /\ extraction_step(op, a,
                       [client |-> client, params |-> params,
                        exists |-> exists, upstream |-> upstream,
                        retry |-> retry],
                       extract(client, method, a, params, exists, upstream,
                               retry))

extract_structured_data(columns, upstream) ==
    extraction("extract_structured_data", "text",
               Arg(ClientContent, "p", client.model, columns), columns, TRUE,
               upstream, upstream)

extract_structured_data_with_schema(schema, upstream, retry) ==
    extraction("extract_structured_data_with_schema", "schema",
               Arg(ClientContent, "p", client.model, cache_key_columns(schema)),
               schema, TRUE, upstream, retry)

extract_structured_data_from_audio(exists, columns, upstream) ==
    extraction("extract_structured_data_from_audio", "audio",
               Arg(audio_cache_key(AudioPath), "p", client.model, columns),
               columns, exists, upstream, upstream)

extract_structured_data_from_image(columns, upstream) ==
    extraction("extract_structured_data_from_image", "image",
               Arg(ClientContent, "p", client.model, columns), columns, TRUE,
               upstream, upstream)

ExtractionOps ==
    {"extract_structured_data", "extract_structured_data_with_schema",
     "extract_structured_data_from_audio", "extract_structured_data_from_image"}

\* Time passes between two calls; the last call stays the last call.
Elapse ==
    /\ now < MaxTime
    /\ now' = now + 1
    /\ lastSet' = Kept(now')
    /\ UNCHANGED <<files, enabled, ttl, last, clientVars>>

\* What the upstream does at the attempts of a call of the text method: a
\* body at the first attempt, a completion after a timeout, timeouts only,
\* and the statuses 400 and 401.
Answer(body) == At(ClientRetries, 1, Ok(body))
Timeouts == At(ClientRetries, 0, Timeout)
TextUpstreams ==
    {Answer(body) : body \in Bodies}
        \cup {At(ClientRetries, ClientRetries, Ok(Completion(PyStr(TextAge)))),
              Timeouts,
              At(ClientRetries, 1, HTTPError(400, TRUE)),
              At(ClientRetries, 1, HTTPError(401, TRUE))}

\* Of the schema method: the attempts of the call with response_format and
\* those of the call without it.
SchemaUpstreams ==
    {<<Answer(Completion(PyStr(t))), Timeouts>> : t \in CompletionTexts}
        \cup {<<Answer(NoChoices), Timeouts>>,
              <<At(ClientRetries, 1, HTTPError(401, TRUE)), Timeouts>>,
              <<At(ClientRetries, 1, HTTPError(400, TRUE)), Timeouts>>,
              <<At(ClientRetries, 1, HTTPError(400, TRUE)),
                Answer(Completion(PyStr(TextAge)))>>}

\* Of the audio and the image methods.
AudioUpstreams ==
    {Answer(Completion(PyStr(TextAge))), Answer(Completion(PyNone)), Timeouts}
ImageUpstreams ==
    {Answer(Completion(PyStr(TextAge))), Answer(Completion(PyStr(TextThousand))),
     Answer(ContentAbsent)}

\* Clients with and without the cache, and their extraction methods.  The
\* columns argument is the one whose key is the key of the schemas, so that
\* all the calls meet in one cache file.
NextClient ==
    \/ \E use_cache \in BOOLEAN :
          __init__(TRUE, use_cache, TestTtl, ClientRetries, 1)
    \/ \E upstream \in TextUpstreams :
          extract_structured_data(ColsMarked, upstream)
    \/ \E schema \in Schemas, upstream \in SchemaUpstreams :
          extract_structured_data_with_schema(schema, upstream[1], upstream[2])
    \/ \E upstream \in AudioUpstreams :
          extract_structured_data_from_audio(TRUE, ColsMarked, upstream)
    \/ extract_structured_data_from_audio(FALSE, ColsMarked, Timeouts)
    \/ \E upstream \in ImageUpstreams :
          extract_structured_data_from_image(ColsMarked, upstream)
    \/ Elapse

SpecClient == Init /\ [][NextClient]_vars

(***************************************************************************)
(* parse_json_from_response (fundas/utils/json_parser.py), the function    *)
(* that holds the extraction methods' reading of a completion text.  Its   *)
(* input is a text made of at most MaxPieces pieces: a bare fence, a json  *)
(* fence, the text of a JSON object, the text of a JSON array, a space and *)
(* a letter.                                                               *)
(***************************************************************************)
\* A string given by its characters.
PyChars(cs) == [k |-> "str", chars |-> cs]

ObjectText == Chars["{\"age\": [\"30\"]}"]
ArrayText == Chars["[\"30\"]"]
Pieces == {Fence, FenceJson, ObjectText, ArrayText, <<" ">>, <<"x">>}

RECURSIVE Concatenations(_)
Concatenations(n) ==
    IF n = 0 THEN {<<>>}
    ELSE LET shorter == Concatenations(n - 1) IN
         shorter \cup {t \o p : t \in shorter, p \in Pieces}

ResponseTexts == Concatenations(MaxPieces)

\* The state before a function of the library is applied: no cache, no
\* client, and in last the input drawn for the function.
Given(inputs) ==
    /\ files = <<>>
    /\ enabled = TRUE
    /\ ttl = TestTtl
    /\ now = 0
    /\ last \in {[op |-> "input", input |-> i] : i \in inputs}
    /\ lastSet = <<>>
    /\ global_cache = PyNone
    /\ client = PyNone

\* The application of a function to the input: r is what it returns or
\* raises, with the values of its local variables.
applied(op, r) ==
    /\ last.op = "input"
    /\ last' = [op |-> op, input |-> last.input] @@ r
    /\ UNCHANGED <<files, enabled, ttl, now, lastSet, clientVars>>

\* A faulty fallback: the payload in place of the whole text.
fallback_of_payload(text, payload) ==
    PyDict(<<"content">>, <<PyList(<<PyChars(payload)>>)>>)

\* {"content": [response_text]}
fallback(text, payload) ==
    PyDict(<<"content">>, <<PyList(<<PyChars(text)>>)>>)

\* The body of parse_json_from_response once json_str is bound: payload is
\* json_str and loaded the outcome of json.loads(json_str).
parse_outcome(text, payload, loaded) ==
    [ret |-> IF loaded.ok THEN loaded.v ELSE fallback(text, payload),
     exc |-> "none",
     branch |-> IF loaded.ok THEN "parsed" ELSE "fallback",
     json_str |-> payload]

parse_json_from_response ==
    applied("parse_json_from_response",
            parse_outcome(last.input, json_str(last.input),
                          json_loads(json_str(last.input))))

NextParse == parse_json_from_response

SpecParse == Given(ResponseTexts) /\ [][NextParse]_vars

(***************************************************************************)
(* normalize_data (fundas/utils/json_parser.py) and the padding that each  *)
(* extraction method does on a parsed object (fundas/core.py).  The input  *)
(* is a mapping of at most MaxColumns keys whose values are lists of at    *)
(* most MaxCells cells or values that are not lists.                       *)
(***************************************************************************)
ColumnNames == <<"a", "b", "c", "d", "e">>
Cells == [i \in 1..(MaxCells + 1) |-> PyInt(i)]
Lists == {PyList(SubSeq(Cells, 1, n)) : n \in 0..MaxCells}
Scalars == {PyStr("x"), PyNone, PyDict(<<>>, <<>>)}

Mappings ==
    UNION {{PyDict(SubSeq(ColumnNames, 1, n), vs) :
               vs \in [1..n -> Lists \cup Scalars]} : n \in 0..MaxColumns}

\* What json.loads can hand to the padding: a mapping, or a value that is
\* not a mapping.
Loadable == Mappings \cup {PyNone, PyList(<<PyInt(1)>>)}

\* normalize_data: a value that is not a dict is returned as it is.
normalize_data_outcome(data) ==
    [ret |-> IF data.k # "dict" THEN data ELSE normalized_data(data),
     exc |-> "none"]

normalize_data == applied("normalize_data", normalize_data_outcome(last.input))

Methods == {"text", "schema", "audio", "image"}

\* The block `if isinstance(data, dict):` of the extraction method.
padded(method, data) ==
    [ret |-> IF data.k # "dict" THEN data
             ELSE IF method = "image" THEN normalized_data_image(data)
             ELSE normalized_data(data),
     exc |-> "none", method |-> method]

padding(method) == applied("padding", padded(method, last.input))

NextNormalize ==
    \/ normalize_data
    \/ \E method \in Methods : padding(method)

SpecNormalize == Given(Loadable) /\ [][NextNormalize]_vars

(***************************************************************************)
(* Column.convert_value (fundas/schema.py) applied to a column, a raw      *)
(* value and what pandas does.  The columns are of every dtype, nullable   *)
(* or not, with and without a default; the date columns also with a        *)
(* date_format and the array columns also with an item type.  The raw      *)
(* values are of every type that json.loads returns, dates, and lists of   *)
(* at most MaxItems strings.                                               *)
(***************************************************************************)
DataTypes ==
    {"string", "integer", "number", "boolean", "date", "datetime", "json",
     "array"}

\* "%d.%m.%Y"
DottedFormat == PyFormat(<<"%d", ".", "%m", ".", "%Y">>)

Columns ==
    LET plain == {[Column("v", dtype) EXCEPT !.nullable = nullable,
                                             !.default = default] :
                     dtype \in DataTypes, nullable \in BOOLEAN,
                     default \in {PyNone, PyInt(0)}}
    IN plain
        \cup {[col EXCEPT !.date_format = DottedFormat] :
                 col \in {c \in plain : c.dtype \in {"date", "datetime"}}}
        \cup {[col EXCEPT !.array_item_type = "integer"] :
                 col \in {c \in plain : c.dtype = "array"}}

SecondOfJanuary == PyDate(2024, 1, 2)
FourPastThree == PyDatetime(SecondOfJanuary, 3, 4, 5, 0)

RawStrings ==
    {"30", "1,000", "3.14", "abc", "a, b", "inf", "1e999", "nan",
     "2024-01-02", "01/02/2024", "02/13/2024", "02.01.2024",
     "2024-01-02T03:04:05", "Yes", "{bad", "{\"age\": [\"30\"]}", "[\"30\"]",
     " 30", "{\"a\": 1, \"b\": 2}"}

RECURSIVE ListsOf(_, _)
\* The lists of at most n of the items.
ListsOf(items, n) ==
    IF n = 0 THEN {<<>>}
    ELSE LET shorter == ListsOf(items, n - 1) IN
         shorter \cup {Append(xs, x) : xs \in shorter, x \in items}

RawValues ==
    {PyNone, PyInt(30), PyInt(0), PyBool(TRUE), PyFloat("finite", 314),
     PyFloat("inf", 0), SecondOfJanuary, FourPastThree,
     PyDict(<<"age">>, <<PyList(<<PyStr("30")>>)>>)}
        \cup {PyStr(s) : s \in RawStrings}
        \cup {PyList(xs) : xs \in ListsOf({PyStr("30"), PyStr("inf")}, MaxItems)}

\* pandas is not installed or does not know the text, or reads it as
\* midnight of a date.
Pandas == {NoPandas, Timestamp(PyDatetime(SecondOfJanuary, 0, 0, 0, 0))}

Conversions ==
    {[col |-> col, value |-> value, to_datetime |-> to_datetime] :
        col \in Columns, value \in RawValues, to_datetime \in Pandas}

\* What the caller of convert_value gets.
conversion(r) == [ret |-> r.v, exc |-> r.exc]

Column_convert_value ==
    applied("convert_value",
            conversion(convert_value(last.input.col, last.input.value,
                                     last.input.to_datetime)))

NextConvert == Column_convert_value

SpecConvert == Given(Conversions) /\ [][NextConvert]_vars

(***************************************************************************)
(* The request of the schema method (fundas/core.py): process_content with *)
(* response_format, and on a ValueError that reads like a rejected         *)
(* structured output process_content again without it, for clients of two  *)
(* models and every course of the attempts of the first call.              *)
(***************************************************************************)
\* The models of the clients: a name, and a name that holds "400".
ModelNames == {"m", "gpt-400"}
StrictClients ==
    {[OpenRouterClient(FALSE, PyNone, ClientRetries, 1) EXCEPT !.model = name] :
        name \in ModelNames}

\* What requests.post does at an attempt: a completion, a timeout, the
\* statuses 400, 401 and 404 with a response that is true, and 404 with the
\* response of raise_for_status, which is false.
StrictOutcomes ==
    {Ok(Completion(PyStr(TextAge))), Timeout, HTTPError(404, FALSE)}
        \cup {HTTPError(status, TRUE) : status \in {400, 401, 404}}
StrictUpstreams == [1..ClientRetries -> StrictOutcomes]
StrictRetries ==
    {Timeouts, Answer(Completion(PyStr(TextAge))),
     At(ClientRetries, 1, HTTPError(400, TRUE)),
     At(ClientRetries, 1, HTTPError(401, TRUE))}
StrictInputs ==
    [client : StrictClients, use_strict_schema : BOOLEAN,
     upstream : StrictUpstreams, retry : StrictRetries]

\* The response_format arguments of the calls of process_content that made
\* the requests of trace, a call starting with the request of attempt 1:
\* schema.to_response_format() at the first call when use_strict_schema,
\* and none at the second.
response_formats(use_strict_schema, trace) ==
    LET calls == Cardinality({i \in 1..Len(trace) :
                                 trace[i] = Event("request", 1)})
    IN [i \in 1..calls |->
           IF i = 1 /\ use_strict_schema THEN "json_schema" ELSE "None"]

\* response of extract_structured_data_with_schema: what the request returns
\* or raises.
with_schema_response(c, use_strict_schema, reply) ==
    [ret |-> reply.ret, exc |-> reply.exc, text |-> reply.text,
     trace |-> reply.trace,
     formats |-> response_formats(use_strict_schema, reply.trace)]

request_with_schema ==
    applied("request_with_schema",
            with_schema_response(last.input.client,
                                 last.input.use_strict_schema,
                                 upstream_reply(last.input.client, "schema",
                                                TRUE, last.input.upstream,
                                                last.input.retry)))

NextStrict == request_with_schema

SpecStrict == Given(StrictInputs) /\ [][NextStrict]_vars

(***************************************************************************)
(* with_retry (fundas/utils/retry.py): the wrapper of a function whose     *)
(* k-th call returns or raises as func[k] says.  An exception is the name  *)
(* of its class; IOError and ValueError are subclasses of Exception,       *)
(* KeyboardInterrupt is not.                                               *)
(***************************************************************************)
Returns(v) == [kind |-> "return", v |-> v]
Raises(e) == [kind |-> "raise", exc |-> e]

\* What the wrapper does, in order: call, on_retry and sleep.
RetryEvent(e, n, exc) == [e |-> e, n |-> n, exc |-> exc]

Retried(ret, exc, trace) == [ret |-> ret, exc |-> exc, trace |-> trace]

\* except exceptions as e
listed(exceptions, e) ==
    \/ e \in exceptions
    \/ "Exception" \in exceptions /\ e \in {"IOError", "ValueError"}

\* if on_retry: on_retry(e, attempt)
retry_callback(on_retry, e, attempt) ==
    IF on_retry # PyNone THEN <<RetryEvent("on_retry", attempt, e)>> ELSE <<>>

\* A faulty retry_sleep: the wrapper sleeps after the last attempt as well.
retry_sleep_always(max_retries, retry_delay, attempt) ==
    <<RetryEvent("sleep", retry_delay * (attempt + 1), "")>>

\* if attempt < max_retries - 1: time.sleep(retry_delay * (attempt + 1))
retry_sleep(max_retries, retry_delay, attempt) ==
    IF attempt < max_retries - 1
    THEN <<RetryEvent("sleep", retry_delay * (attempt + 1), "")>>
    ELSE <<>>

\* for attempt in range(max_retries): ..., from the given attempt on, and
\* raise last_exception after the loop, which is a TypeError when
\* last_exception is None.
RECURSIVE wrapper(_, _, _, _, _, _, _, _)
wrapper(max_retries, retry_delay, exceptions, on_retry, func, attempt, last_exception, trace) ==
    IF attempt >= max_retries
    THEN Retried(PyNone,
                 IF last_exception = PyNone THEN "TypeError"
                 ELSE last_exception.s,
                 trace)
    ELSE
    LET r == func[attempt + 1]
        called_func == Append(trace, RetryEvent("call", attempt + 1, ""))
    IN
    IF r.kind = "return" THEN Retried(r.v, "none", called_func)
    ELSE IF ~listed(exceptions, r.exc) THEN Retried(PyNone, r.exc, called_func)
    ELSE wrapper(max_retries, retry_delay, exceptions, on_retry, func,
                 attempt + 1, PyStr(r.exc),
                 called_func \o retry_callback(on_retry, r.exc, attempt)
                     \o retry_sleep(max_retries, retry_delay, attempt))

\* The decorations and the functions of the model: the default exceptions,
\* one class and two classes; no callback and a callback; a function that
\* returns the number of its call or raises.
RetryExceptions == {{"Exception"}, {"IOError"}, {"IOError", "ValueError"}}
RetryOutcomes(k) ==
    {Returns(PyInt(k))}
        \cup {Raises(e) : e \in {"IOError", "ValueError", "KeyboardInterrupt"}}
RetryFuncs(n) == {f \in [1..n -> UNION {RetryOutcomes(k) : k \in 1..n}] :
                     \A k \in 1..n : f[k] \in RetryOutcomes(k)}
RetryInputs ==
    UNION {[max_retries : {n}, retry_delay : 1..(MaxDelay + 1),
            exceptions : RetryExceptions,
            on_retry : {PyNone, PyStr("on_retry")},
            func : RetryFuncs(n)] : n \in 0..MaxRetries}

with_retry ==
    applied("with_retry",
            wrapper(last.input.max_retries, last.input.retry_delay,
                    last.input.exceptions, last.input.on_retry,
                    last.input.func, 0, PyNone, <<>>))

NextRetry == with_retry

SpecRetry == Given(RetryInputs) /\ [][NextRetry]_vars

(***************************************************************************)
(* Schema (fundas/schema.py): its construction from a list of at most      *)
(* MaxSchemaColumns Column objects or from a mapping of names to type      *)
(* names, and its methods get_column_names, get_column and convert_data    *)
(* called on the constructed object.  A list can name a column twice; the  *)
(* keys of a mapping are distinct, as those of a dict are.                 *)
(***************************************************************************)
\* type_mapping of Column._parse_dtype
type_mapping ==
    ("str" :> "string") @@ ("string" :> "string") @@ ("text" :> "string")
    @@ ("int" :> "integer") @@ ("integer" :> "integer")
    @@ ("float" :> "number") @@ ("number" :> "number")
    @@ ("double" :> "number") @@ ("decimal" :> "number")
    @@ ("bool" :> "boolean") @@ ("boolean" :> "boolean")
    @@ ("date" :> "date") @@ ("datetime" :> "datetime")
    @@ ("timestamp" :> "datetime")
    @@ ("json" :> "json") @@ ("object" :> "json") @@ ("dict" :> "json")
    @@ ("array" :> "array") @@ ("list" :> "array")

\* Column._parse_dtype of a string: ok = FALSE is ValueError
parse_dtype(dtype) ==
    LET dtype_lower == Str(Lower(Chars[dtype.s])) IN
    IF dtype_lower \in DOMAIN type_mapping
    THEN [ok |-> TRUE, v |-> type_mapping[dtype_lower]]
    ELSE [ok |-> FALSE]

\* [Column(name, dtype) for name, dtype in columns.items()]
columns_of_mapping(columns) ==
    [i \in 1..Len(columns.keys) |->
        Column(columns.keys[i], parse_dtype(columns.vals[i]).v)]

\* Schema.__init__(columns, name="s"); _column_map is read off self.columns
\* by HasColumn and get_column.
Schema_init(columns) ==
    IF columns.k = "dict"
    THEN IF \E i \in 1..Len(columns.vals) : ~parse_dtype(columns.vals[i]).ok
         THEN [ret |-> PyNone, exc |-> "ValueError"]
         ELSE [ret |-> Schema(columns_of_mapping(columns), "s"),
               exc |-> "none"]
    ELSE [ret |-> Schema(columns.items, "s"), exc |-> "none"]

SchemaNames == {"a", "b"}
ColumnObjects ==
    {Column(name, dtype) : name \in SchemaNames, dtype \in {"string", "integer"}}
TypeNames == {PyStr("string"), PyStr("INT"), PyStr("money")}
NameOrders == {<<>>, <<"a">>, <<"b">>, <<"a", "b">>, <<"b", "a">>}

\* The first argument of Schema(...).
Constructions ==
    {PyList(cols) : cols \in ListsOf(ColumnObjects, MaxSchemaColumns)}
        \cup UNION {{PyDict(keys, vals) : vals \in [1..Len(keys) -> TypeNames]} :
                       keys \in NameOrders}

\* The values of the data handed to convert_data: under a lists of at most
\* MaxRows strings, a string and None; under c, which no schema names, a
\* string, None and the lists of at most MaxRows cells x.
Rows ==
    {PyList(xs) : xs \in ListsOf({PyStr("30"), PyStr("x"), PyStr("inf")},
                                 MaxRows)}
        \cup {PyStr("x"), PyNone}
OtherRows ==
    {PyList([j \in 1..n |-> PyStr("x")]) : n \in 0..MaxRows}
        \cup {PyStr("x"), PyNone}
KeyOrders == {<<>>, <<"a">>, <<"c">>, <<"a", "c">>, <<"c", "a">>}
Tables ==
    UNION {{PyDict(keys, vals) :
               vals \in {vs \in [1..Len(keys) -> Rows \cup OtherRows] :
                            \A i \in 1..Len(keys) :
                                vs[i] \in IF keys[i] = "a" THEN Rows
                                          ELSE OtherRows}} :
              keys \in KeyOrders}

construct == applied("Schema", Schema_init(last.input))

\* A method called on the constructed schema: self is the schema, args the
\* arguments and r what the method returns or raises.
called(op, args, r) ==
    /\ last.op = "Schema"
    /\ last.exc = "none"
    /\ last' = [op |-> op, input |-> last.input, self |-> last.ret,
                args |-> args, ret |-> r.v, exc |-> r.exc]
    /\ UNCHANGED <<files, enabled, ttl, now, lastSet, clientVars>>

Schema_get_column_names ==
    called("get_column_names", <<>>,
           Converted("none", get_column_names(last.ret)))

Schema_get_column(name) ==
    called("get_column", <<name>>,
           Converted("none", IF HasColumn(last.ret, name)
                             THEN get_column(last.ret, name)
                             ELSE PyNone))

Schema_convert_data(data) ==
    called("convert_data", <<data>>, convert_data(last.ret, data))

NextSchema ==
    \/ construct
    \/ Schema_get_column_names
    \/ \E name \in SchemaNames \cup {"c"} : Schema_get_column(name)
    \/ \E data \in Tables : Schema_convert_data(data)

SpecSchema == Given(Constructions) /\ [][NextSchema]_vars

(***************************************************************************)
(* Two processes on one cache file (fundas/cache.py).  Each has its own    *)
(* APICache over the same cache_dir and calls get and set with the same    *)
(* arguments; nothing orders the steps of one call with those of the       *)
(* other.  set opens the file for writing, which empties it, and json.dump *)
(* hands the record to the file object, whose buffer reaches the file in   *)
(* writes of at most BufferSize tokens, each at the offset of the writer's *)
(* own file descriptor.  get tests that the file exists, then opens and    *)
(* reads it.  The records of the model are longer than the buffer; those   *)
(* of RaceJohn and RaceAnna have the same length.  The clock stands still. *)
(***************************************************************************)
Procs == {1, 2}
RaceArgs == Arg("c", "p", "m", ColsNone)
RaceJohn == PyDict(<<"name">>, <<PyList(<<PyStr("John"), PyStr("John")>>)>>)
RaceAnna == PyDict(<<"name">>, <<PyList(<<PyStr("Anna"), PyStr("Anna")>>)>>)
RacePayloads == {RaceJohn, RaceAnna, DataJohn}

\* A process: the call it is in, where it stands in it, the record and the
\* offset of its file descriptor, and what its last call returned or raised.
Proc(call, pc, text, pos, ret, exc) ==
    [call |-> call, pc |-> pc, text |-> text, pos |-> pos, ret |-> ret,
     exc |-> exc]

InitRace ==
    /\ files = <<>>
    /\ enabled = TRUE
    /\ ttl = TestTtl
    /\ now = 0
    /\ last = [op |-> "race",
               procs |-> [p \in Procs |->
                             Proc("none", "idle", <<>>, 0, PyNone, "none")],
               sets |-> {},
               calls |-> [p \in Procs |-> 0]]
    /\ lastSet = <<>>
    /\ global_cache = PyNone
    /\ client = PyNone

\* The step of process p that leaves it as proc and the files as fs.
race_step(p, proc, fs) ==
    /\ files' = fs
    /\ last' = [last EXCEPT !.procs[p] = proc]
    /\ UNCHANGED <<enabled, ttl, now, lastSet, clientVars>>

CanCall(p) ==
    /\ last.procs[p].pc \in {"idle", "returned"}
    /\ last.calls[p] < MaxRaceCalls

\* set(...) up to cache_entry = {"timestamp": time.time(), "data": data}
race_set(p, data) ==
    /\ CanCall(p)
    /\ files' = files
    /\ last' = [last EXCEPT
                   !.procs[p] = Proc("set", "entry",
                                     JsonEncode(cache_entry(now, data)).text,
                                     0, PyNone, "none"),
                   !.sets = @ \cup {data},
                   !.calls[p] = @ + 1]
    /\ UNCHANGED <<enabled, ttl, now, lastSet, clientVars>>

\* open(cache_file, "w"): the file is created or emptied
set_open(p) ==
    /\ last.procs[p].pc = "entry"
    /\ race_step(p, [last.procs[p] EXCEPT !.pc = "opened"],
                 Store(files, cache_file(RaceArgs), <<>>))

\* The text after chunk is written at offset pos; a write past the end of
\* the file leaves a hole of bytes that start no JSON value.
WriteAt(text, pos, chunk) ==
    IF pos >= Len(text)
    THEN text \o [i \in 1..(pos - Len(text)) |-> TJunk] \o chunk
    ELSE SubSeq(text, 1, pos) \o chunk
            \o SubSeq(text, pos + Len(chunk) + 1, Len(text))

\* A faulty buffer: the whole record reaches the file in one write.
NextWrite_whole(proc) == Len(proc.text)

\* The offset after the next write of the buffer.
NextWrite(proc) ==
    IF proc.pos + BufferSize < Len(proc.text) THEN proc.pos + BufferSize
    ELSE Len(proc.text)

\* json.dump(cache_entry, f) and the close of the file: one write of the
\* buffer; the call returns after the last.
set_write(p) ==
    LET proc == last.procs[p]
        stop == NextWrite(proc)
    IN
    /\ proc.pc = "opened"
    /\ race_step(p,
                 [proc EXCEPT !.pos = stop,
                              !.pc = IF stop = Len(proc.text) THEN "returned"
                                     ELSE "opened"],
                 Store(files, cache_file(RaceArgs),
                       WriteAt(files[cache_file(RaceArgs)], proc.pos,
                               SubSeq(proc.text, proc.pos + 1, stop))))

\* get(...) up to `if not cache_file.exists(): return None`
race_get(p) ==
    /\ CanCall(p)
    /\ files' = files
    /\ last' = [last EXCEPT
                   !.procs[p] =
                       IF cache_file(RaceArgs) \in DOMAIN files
                       THEN Proc("get", "exists", <<>>, 0, PyNone, "none")
                       ELSE Proc("get", "returned", <<>>, 0, PyNone, "none"),
                   !.calls[p] = @ + 1]
    /\ UNCHANGED <<enabled, ttl, now, lastSet, clientVars>>

\* The try block of get on the text that the file holds; loaded is what
\* json.load makes of it.
get_loaded(name, loaded) ==
    IF ~loaded.ok THEN Outcome(PyNone, "none", "corrupt", files)
    ELSE IF loaded.v.k # "dict"
    THEN Outcome(PyNone, "AttributeError", "raised", files)
    ELSE IF DictGet(loaded.v, "timestamp", PyInt(0)).k # "int"
    THEN Outcome(PyNone, "TypeError", "raised", files)
    ELSE IF Expired(now, DictGet(loaded.v, "timestamp", PyInt(0)).n)
    THEN Outcome(PyNone, "none", "expired", unlink(files, name))
    ELSE hit(name, loaded.v)

\* with open(cache_file, "r") as f: cached_data = json.load(f) and the rest
\* of get
get_load(p) ==
    LET r == get_loaded(cache_file(RaceArgs),
                        JsonLoad(files[cache_file(RaceArgs)]))
    IN
    /\ last.procs[p].pc = "exists"
    /\ race_step(p, Proc("get", "returned", <<>>, 0, r.ret, r.exc), r.files)

NextRace ==
    \E p \in Procs :
        \/ \E data \in RacePayloads : race_set(p, data)
        \/ set_open(p)
        \/ set_write(p)
        \/ race_get(p)
        \/ get_load(p)

SpecRace == InitRace /\ [][NextRace]_vars

(***************************************************************************)
(* Reading the directory in the claims: the well-formed entry, if any,     *)
(* that the file of an argument tuple holds.                               *)
(***************************************************************************)
\* The text is a JSON object whose timestamp, 0 when it has none, is a number.
TextIsEntry(text) ==
    LET l == Loaded[text] IN
    /\ l.ok
    /\ l.v.k = "dict"
    /\ DictGet(l.v, "timestamp", PyInt(0)).k = "int"
TextTime(text) == DictGet(Loaded[text].v, "timestamp", PyInt(0)).n
HasEntry(fs, a) ==
    cache_file(a) \in DOMAIN fs /\ TextIsEntry(fs[cache_file(a)])
EntryTime(fs, a) == TextTime(fs[cache_file(a)])
EntryData(fs, a) == DictGet(Loaded[fs[cache_file(a)]].v, "data", PyNone)

\* C1: on an enabled cache, a get that follows a set of a JSON payload for
\* the same (content, prompt, model, columns), while now - timestamp <= ttl
\* and with no clear in between, returns exactly the data that was set.
C1_SetThenGet ==
    [][(/\ last'.op = "get"
        /\ enabled
        /\ last'.args \in DOMAIN lastSet
        /\ IsJson(lastSet[last'.args].data)
        /\ now - lastSet[last'.args].time <= ttl)
       => (/\ last'.exc = "none"
           /\ last'.ret = lastSet[last'.args].data)]_vars

\* A get has returned the data of a set made at an earlier time.
C1_Witness ==
    /\ last.op = "get"
    /\ last.args \in DOMAIN lastSet
    /\ last.ret = lastSet[last.args].data
    /\ last.ret = DataAnn
    /\ lastSet[last.args].time < now

\* C2: get returns a payload other than None only from an entry whose age
\* satisfies now - timestamp <= ttl, and the payload is that entry's data; an
\* entry aged exactly ttl is still served.
C2_ServesOnlyFresh ==
    [][last'.op = "get"
       => (/\ last'.ret # PyNone
              => (/\ HasEntry(files, last'.args)
                  /\ now - EntryTime(files, last'.args) <= ttl
                  /\ last'.ret = EntryData(files, last'.args))
           /\ (/\ enabled
               /\ HasEntry(files, last'.args)
               /\ now - EntryTime(files, last'.args) = ttl)
              => (/\ last'.exc = "none"
                  /\ last'.ret = EntryData(files, last'.args)))]_vars

\* A get has served an entry aged exactly ttl.
C2_Witness ==
    /\ last.op = "get"
    /\ last.branch = "hit"
    /\ last.ret # PyNone
    /\ HasEntry(files, last.args)
    /\ now - EntryTime(files, last.args) = ttl

\* C3: once more than ttl has passed since an entry was set, get for its key
\* returns None and removes the record, and nothing else, so that clear()
\* would count one entry fewer than before the get.
C3_ExpiredIsRemoved ==
    [][(/\ last'.op = "get"
        /\ enabled
        /\ HasEntry(files, last'.args)
        /\ now - EntryTime(files, last'.args) > ttl)
       => (/\ last'.exc = "none"
           /\ last'.ret = PyNone
           /\ cache_file(last'.args) \notin DOMAIN files'
           /\ files' = Remove(files, cache_file(last'.args))
           /\ clear_outcome({}).count' = clear_outcome({}).count - 1)]_vars

\* A get has found an expired entry.
C3_Witness ==
    /\ last.op = "get"
    /\ last.branch = "expired"
    /\ cache_file(last.args) \notin DOMAIN files

\* C4 as stated: two gets in immediate succession for the same key return
\* the same result, and a get leaves the content of the store unchanged.
C4_GetLeavesStore ==
    [][last'.op = "get"
       => (/\ (last.op = "get" /\ last.args = last'.args)
                 => last'.ret = last.ret
           /\ files' = files)]_vars

\* C4 as amended: two gets in immediate succession for the same key return
\* the same result; the first changes the store only by removing the key's
\* record when that record has expired, and the second changes nothing.
C4_GetTwice ==
    [][last'.op = "get"
       => (/\ (last.op = "get" /\ last.args = last'.args)
                 => (/\ last'.ret = last.ret
                     /\ last'.exc = last.exc
                     /\ files' = files)
           /\ \/ files' = files
              \/ /\ HasEntry(files, last'.args)
                 /\ now - EntryTime(files, last'.args) > ttl
                 /\ files' = Remove(files, cache_file(last'.args)))]_vars

\* A get has removed an expired record and the same get, repeated at once,
\* has found no record.
C4_Witness ==
    /\ last.op = "get"
    /\ last.after = "expired"
    /\ last.branch = "absent"
    /\ last.ret = PyNone

\* C5: argument tuples that differ in any field (the order of the columns,
\* None versus a list) address different records: a get returns only data
\* set under its own tuple, and returns it, and a set changes the record of
\* no other tuple.
C5_KeysIsolate ==
    [][/\ \A a, b \in KeyArgs : a # b => cache_file(a) # cache_file(b)
       /\ last'.op = "get"
             => /\ last'.ret # PyNone
                   => (/\ last'.args \in DOMAIN lastSet
                       /\ last'.ret = lastSet[last'.args].data)
                /\ (last'.args \in DOMAIN lastSet
                    /\ now - lastSet[last'.args].time <= ttl)
                   => last'.ret = lastSet[last'.args].data
       /\ last'.op = "set"
             => \A b \in KeyArgs \ {last'.args} :
                   /\ cache_file(b) \in DOMAIN files
                         <=> cache_file(b) \in DOMAIN files'
                   /\ cache_file(b) \in DOMAIN files
                         => files'[cache_file(b)] = files[cache_file(b)]]_vars

\* A get under columns [a, b] has returned its own data while the tuple with
\* columns [b, a] holds other data.
C5_Witness ==
    /\ last.op = "get"
    /\ last.args = Arg("c", "p", "m", ColsAB)
    /\ last.ret = DataJohn
    /\ Arg("c", "p", "m", ColsBA) \in DOMAIN lastSet
    /\ lastSet[Arg("c", "p", "m", ColsBA)].data = DataAnn

\* C6: while the cache is disabled, get returns None and set stores nothing,
\* and neither changes the store (an expired record stays too); disable and
\* enable change no record; the get right after enable returns an unexpired
\* entry that is there and misses a key that has no record.
C6_DisabledIsInert ==
    [][/\ (~enabled /\ last'.op \in {"get", "set"})
             => (/\ files' = files
                 /\ last'.ret = PyNone
                 /\ last'.exc = "none")
       /\ last'.op \in {"disable", "enable"} => files' = files
       /\ (last.op = "enable" /\ last'.op = "get")
             => (/\ (/\ HasEntry(files, last'.args)
                     /\ now - EntryTime(files, last'.args) <= ttl)
                    => last'.ret = EntryData(files, last'.args)
                 /\ cache_file(last'.args) \notin DOMAIN files
                    => last'.ret = PyNone)]_vars

\* A get on the disabled cache has left an expired record in place.
C6_Witness ==
    /\ ~enabled
    /\ last.op = "get"
    /\ last.branch = "disabled"
    /\ HasEntry(files, last.args)
    /\ now - EntryTime(files, last.args) > ttl

\* C7: clear() deletes every record whose deletion does not fail, leaves a
\* record whose deletion fails as it was, does not abort, and returns the
\* number of records it removed; the get that follows returns None for
\* every key whose record was removed.
C7_ClearSweepsAll ==
    [][/\ last'.op = "clear"
             => (/\ last'.exc = "none"
                 /\ last'.stuck \subseteq DOMAIN files
                 /\ DOMAIN files' = last'.stuck
                 /\ \A n \in DOMAIN files' : files'[n] = files[n]
                 /\ last'.ret
                       = PyInt(Cardinality(DOMAIN files \ DOMAIN files')))
       /\ (/\ last.op = "clear"
           /\ last'.op = "get"
           /\ cache_file(last'.args) \notin last.stuck)
             => (last'.ret = PyNone /\ last'.exc = "none")]_vars

\* A clear has removed one record and skipped one whose deletion failed.
C7_Witness ==
    /\ last.op = "clear"
    /\ last.stuck # {}
    /\ last.ret = PyInt(1)
    /\ DOMAIN files = last.stuck

\* The records of fs that clear_expired is to remove: those that hold no
\* well-formed entry and those whose entry is older than ttl at time t.
Removable(fs, t) ==
    {n \in DOMAIN fs : ~TextIsEntry(fs[n]) \/ t - TextTime(fs[n]) > ttl}

\* C8: clear_expired() removes exactly the records that are corrupt or
\* expired relative to the time at the start of the call, leaves every other
\* record in place, where the get that follows retrieves it, and returns the
\* number of records it removed.
C8_SweepRemovesExpiredAndCorrupt ==
    [][/\ last'.op = "clear_expired"
             => (/\ last'.exc = "none"
                 /\ DOMAIN files' = DOMAIN files \ Removable(files, now)
                 /\ \A n \in DOMAIN files' : files'[n] = files[n]
                 /\ last'.ret = PyInt(Cardinality(Removable(files, now))))
       /\ (/\ last.op = "clear_expired"
           /\ last'.op = "get"
           /\ enabled
           /\ HasEntry(files, last'.args)
           /\ now - EntryTime(files, last'.args) <= ttl)
             => last'.ret = EntryData(files, last'.args)]_vars

\* What holds of C8: the same, for a sweep of a directory in which every
\* record either is a well-formed entry or fails to decode as JSON.
C8_SweepOfDecodeFailures ==
    [][(/\ last'.op = "clear_expired"
        /\ \A n \in DOMAIN files :
              TextIsEntry(files[n]) \/ ~Loaded[files[n]].ok)
       => (/\ last'.exc = "none"
           /\ DOMAIN files' = DOMAIN files \ Removable(files, now)
           /\ \A n \in DOMAIN files' : files'[n] = files[n]
           /\ last'.ret = PyInt(Cardinality(Removable(files, now))))]_vars

\* C9: get on a key whose record is corrupt returns None without raising and
\* leaves the record in place; a corrupt record goes or changes only in
\* clear_expired(), clear() or a write (set, another writer).
C9_CorruptStaysOnGet ==
    [][/\ (/\ last'.op = "get"
           /\ enabled
           /\ cache_file(last'.args) \in DOMAIN files
           /\ ~TextIsEntry(files[cache_file(last'.args)]))
             => (/\ last'.ret = PyNone
                 /\ last'.exc = "none"
                 /\ files' = files)
       /\ \A n \in DOMAIN files :
             (/\ ~TextIsEntry(files[n])
              /\ (n \notin DOMAIN files' \/ files'[n] # files[n]))
                => last'.op \in {"clear_expired", "clear", "set", "external"}
      ]_vars

\* What holds of C9: the same, for a record that fails to decode as JSON.
C9_DecodeFailureStaysOnGet ==
    [][/\ (/\ last'.op = "get"
           /\ enabled
           /\ cache_file(last'.args) \in DOMAIN files
           /\ ~Loaded[files[cache_file(last'.args)]].ok)
             => (/\ last'.ret = PyNone
                 /\ last'.exc = "none"
                 /\ files' = files)
       /\ \A n \in DOMAIN files :
             (/\ ~TextIsEntry(files[n])
              /\ (n \notin DOMAIN files' \/ files'[n] # files[n]))
                => last'.op \in {"clear_expired", "clear", "set", "external"}
      ]_vars

\* C10: no cache operation propagates an exception to its caller, whatever
\* the records in the store and whatever the value being stored.
C10_NothingRaises == last.exc = "none"

\* What holds of C10: an I/O fault is never raised, and an exception reaches
\* the caller only from a get or a clear_expired that meets a record which
\* decodes as JSON but holds no well-formed entry, or from a set of a value
\* json cannot serialise.
C10_OnlyShapeErrorsRaise ==
    [][/\ last'.branch = "ioerror" => last'.exc = "none"
       /\ last'.exc # "none"
             => \/ /\ last'.op \in {"get", "clear_expired"}
                   /\ \E n \in DOMAIN files :
                         Loaded[files[n]].ok /\ ~TextIsEntry(files[n])
                \/ last'.op = "set" /\ last'.exc = "TypeError"]_vars

\* C11: get_cache is an init-once singleton.  Once the object exists it is
\* never replaced and its directory and ttl never change; the call that
\* makes it gives it the directory and the ttl of that call; every call of
\* get_cache returns it, whatever its arguments; a client constructed with
\* use_cache holds it, whatever its cache_ttl, and the cache's ttl is the
\* object's.
C11_InitOnceSingleton ==
    [][/\ global_cache # PyNone
             => (global_cache' = global_cache /\ ttl' = ttl)
       /\ global_cache' # PyNone => ttl' = global_cache'.ttl
       /\ last'.op = "get_cache"
             => (/\ last'.ret = global_cache'
                 /\ global_cache = PyNone
                       => (/\ last'.ret.ttl = last'.input.ttl
                           /\ last'.ret.cache_dir
                                 = IF last'.input.cache_dir = PyNone
                                   THEN PyStr(DefaultDir)
                                   ELSE last'.input.cache_dir))
       /\ (last'.op = "__init__" /\ last'.exc = "none")
             => (/\ client'.cache
                       = IF last'.input.use_cache THEN global_cache'
                         ELSE PyNone
                 /\ (last'.input.use_cache /\ global_cache = PyNone)
                       => (/\ global_cache'.ttl = last'.input.cache_ttl
                           /\ global_cache'.cache_dir = PyStr(DefaultDir)))
      ]_vars

\* A client has been constructed with a cache_ttl other than the ttl of the
\* singleton, which a call of get_cache made for another directory, and
\* holds the singleton.
C11_Witness ==
    /\ last.op = "__init__"
    /\ last.exc = "none"
    /\ last.input.use_cache
    /\ global_cache # PyNone
    /\ last.input.cache_ttl # global_cache.ttl
    /\ global_cache.cache_dir = PyStr("d")
    /\ client.cache = global_cache
    /\ ttl = global_cache.ttl

\* The trace of n attempts of which all but the last failed and were
\* followed by a sleep: request 1, sleep delay * 1, request 2, ...
ExpectedTrace(n, delay) ==
    [i \in 1..(IF n = 0 THEN 0 ELSE 2 * n - 1) |->
        IF i % 2 = 1 THEN Event("request", (i + 1) \div 2)
        ELSE Event("sleep", delay * (i \div 2))]

\* Timeouts and server errors.
TransientOutcomes == {Timeout, HTTPError(500, FALSE)}

PermanentText(status) ==
    CASE status = 400 -> "Invalid request"
      [] status = 401 -> "Invalid API key"
      [] status = 404 -> "Model not found"

\* C19: when the first attempt of process_content or of
\* process_content_with_image meets HTTP status 400, 401 or 404, exactly one
\* request is made, there is no sleep, and a ValueError is raised whose
\* message is the one of that status.
C19_PermanentFailsAtOnce ==
    (/\ last.op \in {"process_content", "process_content_with_image"}
     /\ last.input.client.max_retries > 0
     /\ last.input.upstream[1].kind = "HTTPError"
     /\ last.input.upstream[1].status \in {400, 401, 404})
       => (/\ Requests(last.trace) = 1
           /\ Slept(last.trace) = 0
           /\ last.exc = "ValueError"
           /\ last.text = PermanentText(last.input.upstream[1].status))

\* What holds of C19: the same, when the response of the HTTPError is an
\* object that is true, as a mock is and a requests.Response of such a
\* status is not.
C19_TruthyResponseFailsAtOnce ==
    (/\ last.op \in {"process_content", "process_content_with_image"}
     /\ last.input.client.max_retries > 0
     /\ last.input.upstream[1].kind = "HTTPError"
     /\ last.input.upstream[1].status \in {400, 401, 404}
     /\ last.input.upstream[1].truthy)
       => (/\ Requests(last.trace) = 1
           /\ Slept(last.trace) = 0
           /\ last.exc = "ValueError"
           /\ last.text = PermanentText(last.input.upstream[1].status))

(***************************************************************************)
(* Reading the calls of the client in the claims.                          *)
(***************************************************************************)
\* The cache serves the entry it holds for a: the cache is enabled and the
\* file of a holds a well-formed entry that has not expired.
ValidEntry(fs, a) ==
    /\ enabled
    /\ HasEntry(fs, a)
    /\ ~Expired(now, EntryTime(fs, a))

\* The step is an extraction call: it returns at the time of the next state.
Extracted == last'.op \in ExtractionOps /\ last'.at = now'

TextOp == "extract_structured_data"
SchemaOp == "extract_structured_data_with_schema"

\* The body the upstream answered the call with, when its first attempt, or
\* the first attempt of the schema method's second request, was answered.
Answered(input) ==
    IF input.upstream[1].kind = "ok" THEN <<input.upstream[1].body>>
    ELSE IF input.upstream[1] = HTTPError(400, TRUE)
            /\ input.retry[1].kind = "ok"
    THEN <<input.retry[1].body>>
    ELSE <<>>

\* C12: an extraction call of a caching client made while the cache holds a
\* valid entry for the call's key makes no upstream request and returns from
\* the entry's payload; a call that makes a request has consulted the cache
\* before.
C12_ValidEntryIsServed ==
    [][(Extracted /\ uses_cache(client))
       => (/\ ValidEntry(files, last'.args)
                => (/\ Requests(last'.trace) = 0
                    /\ last'.branch = "hit")
           /\ last'.trace[1] = Event("cache.get", 0))]_vars

\* What holds of C12: the same, for the entries whose payload is not null.
C12_NonNullEntryIsServed ==
    [][(Extracted /\ uses_cache(client))
       => (/\ (ValidEntry(files, last'.args)
                  /\ EntryData(files, last'.args) # PyNone)
                => (/\ Requests(last'.trace) = 0
                    /\ last'.branch = "hit"
                    /\ last'.exc = "none"
                    /\ last'.ret
                          = IF last'.op = SchemaOp
                            THEN convert_data(last'.input.params,
                                              EntryData(files, last'.args)).v
                            ELSE EntryData(files, last'.args))
           /\ last'.trace[1] = Event("cache.get", 0)
           /\ Requests(last'.trace) > 0
                 => ~(ValidEntry(files, last'.args)
                         /\ EntryData(files, last'.args) # PyNone))]_vars

\* C13: an extraction call of a client constructed with use_cache = False
\* leaves the cache store as it is, makes no call of the cache, never
\* returns from an entry, and makes an upstream request whenever it has
\* something to send, whatever the store holds.
C13_UncachedClientBypassesStore ==
    [][(Extracted /\ ~last'.input.client.use_cache)
       => (/\ files' = files
           /\ \A i \in 1..Len(last'.trace) :
                 last'.trace[i].e \notin {"cache.get", "cache.set"}
           /\ last'.branch # "hit"
           /\ last'.input.exists => Requests(last'.trace) >= 1
           /\ (last.op = last'.op /\ last.input = last'.input)
                 => (/\ Requests(last.trace) = Requests(last'.trace)
                     /\ last'.ret = last.ret
                     /\ last'.exc = last.exc))]_vars

\* A client without the cache has asked the upstream and returned its table
\* while the store holds a valid entry for the call's key.
C13_Witness ==
    /\ last.op \in ExtractionOps
    /\ ~last.input.client.use_cache
    /\ Requests(last.trace) >= 1
    /\ last.branch = "parsed"
    /\ ValidEntry(files, last.args)
    /\ EntryData(files, last.args) # PyNone
    /\ EntryData(files, last.args) # last.ret

\* C14: when an extraction call of a caching client has received a
\* completion and returned, and the same call is made again within ttl, the
\* upstream being as it was, the second call returns what the first
\* returned.
C14_SecondCallReturnsTheSame ==
    [][(/\ last.op \in ExtractionOps
        /\ Extracted
        /\ last'.op = last.op
        /\ last'.args = last.args
        /\ last'.input = last.input
        /\ uses_cache(client)
        /\ last.branch \in {"parsed", "fallback"}
        /\ now - last.at <= ttl)
       => (/\ last'.exc = "none"
           /\ last'.ret = last.ret)]_vars

\* What holds of C14: the same, but for the schema method's fallback table.
C14_SameButForSchemaFallback ==
    [][(/\ last.op \in ExtractionOps
        /\ Extracted
        /\ last'.op = last.op
        /\ last'.args = last.args
        /\ last'.input = last.input
        /\ uses_cache(client)
        /\ last.branch \in {"parsed", "fallback"}
        /\ ~(last.op = SchemaOp /\ last.branch = "fallback")
        /\ now - last.at <= ttl)
       => (/\ last'.exc = "none"
           /\ last'.ret = last.ret)]_vars

\* C15: a call of the schema method made while the cache holds a valid
\* entry for its key returns schema.convert_data of the entry's payload
\* under the schema of the call, and leaves the entry as it is: {"age":
\* ["30"]} read with age INTEGER is {"age": [30]}, with age STRING it is
\* {"age": ["30"]}.
C15_HitIsCoercedUnderCurrentSchema ==
    [][(/\ Extracted
        /\ last'.op = SchemaOp
        /\ uses_cache(client)
        /\ ValidEntry(files, last'.args)
        /\ EntryData(files, last'.args) # PyNone)
       => LET data == EntryData(files, last'.args)
              conv == convert_data(last'.input.params, data)
          IN
          /\ last'.exc = conv.exc
          /\ last'.ret = conv.v
          /\ data = AgeString
                => last'.ret = IF last'.input.params = SchemaInt
                               THEN AgeInteger ELSE AgeString
          /\ files' = files]_vars

\* The schema method has returned {"age": [30]} under the schema whose age
\* is INTEGER from the entry {"age": ["30"]} that a call under the schema
\* whose age is STRING wrote.
C15_Witness ==
    /\ last.op = SchemaOp
    /\ last.branch = "hit"
    /\ last.input.params = SchemaInt
    /\ last.args \in DOMAIN lastSet
    /\ lastSet[last.args].by = [op |-> SchemaOp, params |-> SchemaStr]
    /\ EntryData(files, last.args) = AgeString
    /\ last.ret = AgeInteger

C17_SchemaAndPlainEntriesApart ==
    [][(/\ Extracted
        /\ last'.op \in {TextOp, SchemaOp}
        /\ last'.branch = "hit"
        /\ last'.args \in DOMAIN lastSet
        /\ lastSet[last'.args].by.op \in {TextOp, SchemaOp})
       => lastSet[last'.args].by.op = last'.op]_vars

\* What holds of C17: the key of a schema differs from the key of the
\* columns argument that lists the schema's column names.
C17_CoincidingNamesApart ==
    \A schema \in Schemas :
        /\ get_column_names(schema) = ColsAgeContent
        /\ cache_key_columns(schema) = ColsMarked
        /\ cache_file(Arg(ClientContent, "p", "m", ColsAgeContent))
              # cache_file(Arg(ClientContent, "p", "m", ColsMarked))

\* The bodies without a usable completion.
Unusable == {NoChoices, EmptyChoices, ContentAbsent, Completion(PyNone)}

\* C20: an extraction call whose request is answered with a body that has no
\* choices, an empty list of choices, or a choice whose message has no
\* content or the content null, returns {"content": ["No response from
\* API"]} and does not raise.
C20_NoCompletionGivesNoResponse ==
    (/\ last.op \in ExtractionOps
     /\ Requests(last.trace) >= 1
     /\ last.input.upstream[1].kind = "ok"
     /\ last.input.upstream[1].body \in Unusable)
       => (/\ last.exc = "none"
           /\ last.ret = NoResponse)

\* What holds of C20: the same, for the bodies with no choices and with an
\* empty list of choices.
C20_NoChoicesGivesNoResponse ==
    (/\ last.op \in ExtractionOps
     /\ Requests(last.trace) >= 1
     /\ last.input.upstream[1].kind = "ok"
     /\ last.input.upstream[1].body \in {NoChoices, EmptyChoices})
       => (/\ last.exc = "none"
           /\ last.ret = NoResponse
           /\ last.branch = "no_response")

(***************************************************************************)
(* The response parser.                                                    *)
(***************************************************************************)
Parsing == last.op = "parse_json_from_response"

\* The position of the first occurrence of sub in cs from position start
\* on (positions count from 0), or -1.
StandsAt(cs, sub, i) ==
    i + Len(sub) <= Len(cs) /\ SubSeq(cs, i + 1, i + Len(sub)) = sub
FirstAt(cs, sub, start) ==
    IF \E i \in start..Len(cs) : StandsAt(cs, sub, i)
    THEN CHOOSE i \in start..Len(cs) :
            /\ StandsAt(cs, sub, i)
            /\ \A j \in start..(i - 1) : ~StandsAt(cs, sub, j)
    ELSE -1

\* The text between the first occurrence of the opening fence and the next
\* fence after it; closed tells whether there is such a next fence.
Fenced(cs, open) ==
    LET start == FirstAt(cs, open, 0) + Len(open)
        end == FirstAt(cs, Fence, start)
    IN [closed |-> end # -1,
        text |-> IF end <= start THEN <<>> ELSE SubSeq(cs, start + 1, end)]

\* cs without the white space at its ends
Trimmed(cs) ==
    IF \A i \in 1..Len(cs) : cs[i] \in Whitespace THEN <<>>
    ELSE LET first == CHOOSE i \in 1..Len(cs) :
                         /\ cs[i] \notin Whitespace
                         /\ \A j \in 1..(i - 1) : cs[j] \in Whitespace
             end == CHOOSE i \in 1..Len(cs) :
                       /\ cs[i] \notin Whitespace
                       /\ \A j \in (i + 1)..Len(cs) : cs[j] \in Whitespace
         IN SubSeq(cs, first, end)

\* C21: when the payload taken from the text is not JSON, the parser does
\* not raise and returns {"content": [raw_text]} with the whole text as it
\* was given.
C21_ParseFailureKeepsRawText ==
    (Parsing /\ ~json_loads(last.json_str).ok)
        => (/\ last.exc = "none"
            /\ last.ret
                  = PyDict(<<"content">>, <<PyList(<<PyChars(last.input)>>)>>))

\* A json fence that is never closed, before the text of an object: the
\* payload lost the closing brace, and the whole text is returned.
C21_Witness ==
    /\ Parsing
    /\ last.input = FenceJson \o <<" ">> \o ObjectText
    /\ last.json_str # ObjectText
    /\ last.branch = "fallback"
    /\ last.ret.vals[1].items[1].chars = last.input

\* C22: the payload is what stands between the first json fence and the next
\* fence, if there is a json fence; else between the first fence and the
\* next, if there is a fence; else the whole trimmed text.  A fenced object
\* is returned as the object.
C22_PayloadByFencePriority ==
    Parsing =>
        LET cs == last.input IN
        /\ FirstAt(cs, FenceJson, 0) # -1
              => (Fenced(cs, FenceJson).closed
                     => last.json_str = Trimmed(Fenced(cs, FenceJson).text))
        /\ (FirstAt(cs, FenceJson, 0) = -1 /\ FirstAt(cs, Fence, 0) # -1)
              => (Fenced(cs, Fence).closed
                     => last.json_str = Trimmed(Fenced(cs, Fence).text))
        /\ FirstAt(cs, Fence, 0) = -1 => last.json_str = Trimmed(cs)
        /\ last.json_str = ObjectText
              => last.ret = PyDict(<<"age">>, <<PyList(<<PyStr("30")>>)>>)

\* A bare fence comes before the json fence that holds the object.
C22_Witness ==
    /\ Parsing
    /\ last.input = Fence \o FenceJson \o ObjectText \o Fence
    /\ last.ret = PyDict(<<"age">>, <<PyList(<<PyStr("30")>>)>>)

(***************************************************************************)
(* The padding of the columns.                                             *)
(***************************************************************************)
Normalized == last.op \in {"normalize_data", "padding"} /\ last.input.k = "dict"

\* The number of cells a value stands for: a list its length, any other
\* value 1.
CellsOf(v) == IF v.k = "list" THEN Len(v.items) ELSE 1

\* The length of the table of a mapping: that of its longest column, and 1
\* for the empty mapping.
Longest(data) ==
    IF Len(data.vals) = 0 THEN 1
    ELSE CHOOSE m \in 1..(MaxCells + 1) \cup {0} :
            /\ \A i \in 1..Len(data.vals) : CellsOf(data.vals[i]) <= m
            /\ m = 0 \/ \E i \in 1..Len(data.vals) : CellsOf(data.vals[i]) = m

\* C23: normalization keeps the keys and returns lists of one length, the
\* length of the longest input column; a shorter list gets None at its right
\* end and no list loses a cell.
C23_ColumnsOfOneLength ==
    Normalized =>
        /\ last.exc = "none"
        /\ last.ret.k = "dict"
        /\ last.ret.keys = last.input.keys
        /\ \A i \in 1..Len(last.input.vals) :
              /\ last.ret.vals[i].k = "list"
              /\ Len(last.ret.vals[i].items) = Longest(last.input)
              /\ last.input.vals[i].k = "list" =>
                    LET given == last.input.vals[i].items
                        out == last.ret.vals[i].items
                    IN /\ \A j \in 1..Len(given) : out[j] = given[j]
                       /\ \A j \in (Len(given) + 1)..Len(out) : out[j] = PyNone

\* {"a": [1], "b": [1, 2, 3]} gives {"a": [1, None, None], "b": [1, 2, 3]}
C23_Witness ==
    /\ last.op = "normalize_data"
    /\ last.input
          = PyDict(<<"a", "b">>,
                   <<PyList(<<PyInt(1)>>),
                     PyList(<<PyInt(1), PyInt(2), PyInt(3)>>)>>)
    /\ last.ret
          = PyDict(<<"a", "b">>,
                   <<PyList(<<PyInt(1), PyNone, PyNone>>),
                     PyList(<<PyInt(1), PyInt(2), PyInt(3)>>)>>)

\* C24: in normalize_data and in the padding of each of the four extraction
\* methods, a value that is not a list becomes as many copies of itself as
\* the longest column has cells.
C24_ScalarIsBroadcast ==
    Normalized =>
        \A i \in 1..Len(last.input.vals) :
            last.input.vals[i].k # "list" =>
                last.ret.vals[i]
                    = PyList([j \in 1..Longest(last.input) |->
                                 last.input.vals[i]])

\* The same, but for the image method: there the value is followed by None.
C24_BroadcastButInImage ==
    Normalized =>
        \A i \in 1..Len(last.input.vals) :
            last.input.vals[i].k # "list" =>
                last.ret.vals[i]
                    = IF last.op = "padding" /\ last.method = "image"
                      THEN PyList([j \in 1..Longest(last.input) |->
                                      IF j = 1 THEN last.input.vals[i]
                                      ELSE PyNone])
                      ELSE PyList([j \in 1..Longest(last.input) |->
                                      last.input.vals[i]])

(***************************************************************************)
(* The shape of what an extraction call returns.                           *)
(***************************************************************************)
\* A mapping from column names to lists.
IsTable(v) ==
    /\ v.k = "dict"
    /\ \A i \in 1..Len(v.vals) : v.vals[i].k = "list"

\* The completion text the call was answered with, if it was answered with
\* one.
CompletionText(input) ==
    IF Answered(input) # <<>>
          /\ \E t \in CompletionTexts : Answered(input)[1] = Completion(PyStr(t))
    THEN <<CHOOSE t \in CompletionTexts :
              Answered(input)[1] = Completion(PyStr(t))>>
    ELSE <<>>

\* C25: an extraction call whose request is answered with a completion text
\* returns a table, whatever the text is, and in the schema method whatever
\* the schema is.
C25_CompletionGivesTable ==
    (/\ last.op \in ExtractionOps
     /\ Requests(last.trace) >= 1
     /\ CompletionText(last.input) # <<>>)
       => (/\ last.exc = "none"
           /\ IsTable(last.ret))

\* What holds of C25: the same, for the texts that are not JSON and those
\* that are JSON objects.
C25_TableUnlessJsonNotObject ==
    (/\ last.op \in ExtractionOps
     /\ Requests(last.trace) >= 1
     /\ CompletionText(last.input) # <<>>
     /\ LET read == ReadCompletion[CompletionText(last.input)[1], FALSE] IN
        read.branch = "fallback" \/ read.loaded.k = "dict")
       => (/\ last.exc = "none"
           /\ IsTable(last.ret))

(***************************************************************************)
(* Column.convert_value.                                                   *)
(***************************************************************************)
Converting == last.op = "convert_value"
TheColumn == last.input.col
TheValue == last.input.value

\* C26: convert_value raises nothing, whatever the dtype and the raw value,
\* and a conversion that fails gives the raw value back: a string that does
\* not match the date_format of its column, and a string that is not JSON in
\* a JSON column.
C26_ConvertNeverRaises ==
    Converting =>
        /\ last.exc = "none"
        /\ (/\ TheColumn.dtype = "date"
            /\ TheColumn.date_format = DottedFormat
            /\ TheValue \in {PyStr("abc"), PyStr("2024-01-02")})
              => last.ret = TheValue
        /\ (TheColumn.dtype = "json" /\ TheValue = PyStr("{bad"))
              => last.ret = TheValue

\* What holds of C26: only OverflowError is raised, and only where an
\* infinite float is to become an integer.
C26_OnlyOverflowRaises ==
    Converting =>
        /\ last.exc \in {"none", "OverflowError"}
        /\ last.exc = "OverflowError" =>
              \/ /\ TheColumn.dtype = "integer"
                 /\ TheValue \in {PyStr("inf"), PyStr("1e999"),
                                  PyFloat("inf", 0)}
              \/ /\ TheColumn.dtype = "array"
                 /\ TheColumn.array_item_type = "integer"
                 /\ TheValue.k = "list"
                 /\ \E i \in 1..Len(TheValue.items) :
                       TheValue.items[i] = PyStr("inf")
        /\ (/\ TheColumn.dtype = "date"
            /\ TheColumn.date_format = DottedFormat
            /\ TheValue \in {PyStr("abc"), PyStr("2024-01-02")})
              => last.ret = TheValue
        /\ (TheColumn.dtype = "json" /\ TheValue = PyStr("{bad"))
              => last.ret = TheValue

\* The strings that write no number.
NotNumbers ==
    {"abc", "a, b", "2024-01-02", "01/02/2024", "02/13/2024", "02.01.2024",
     "2024-01-02T03:04:05", "Yes", "{bad", "{\"age\": [\"30\"]}", "[\"30\"]"}

Numeric ==
    /\ Converting
    /\ TheColumn.dtype \in {"integer", "number"}
    /\ TheValue.k = "str"

\* What convert_value makes of the strings that write a number.
NumbersRead ==
    /\ (Numeric /\ TheValue.s = "1,000")
          => last.ret = IF TheColumn.dtype = "integer" THEN PyInt(1000)
                        ELSE PyFloat("finite", 100000)
    /\ (Numeric /\ TheValue.s = "3.14")
          => last.ret = IF TheColumn.dtype = "integer" THEN PyInt(3)
                        ELSE PyFloat("finite", 314)
    /\ (Numeric /\ TheValue.s = "30")
          => last.ret = IF TheColumn.dtype = "integer" THEN PyInt(30)
                        ELSE PyFloat("finite", 3000)

\* C27: in an INTEGER or FLOAT column a string that writes a number with
\* separators becomes the number, INTEGER dropping the fraction, and a
\* string that writes no number comes back character for character.
C27_NumberOrTheSameString ==
    /\ NumbersRead
    /\ (Numeric /\ TheValue.s \in NotNumbers)
          => (last.exc = "none" /\ last.ret = TheValue)

\* The string without its commas and spaces.
Unseparated(s) ==
    CASE s = "a, b" -> "ab"
      [] s = "{\"age\": [\"30\"]}" -> "{\"age\":[\"30\"]}"
      [] OTHER -> s

\* What holds of C27: a string that writes no number comes back without its
\* commas and spaces.
C27_NumberOrTheStringUnseparated ==
    /\ NumbersRead
    /\ (Numeric /\ TheValue.s \in NotNumbers)
          => (last.exc = "none" /\ last.ret = PyStr(Unseparated(TheValue.s)))

\* C28: of None a nullable column makes None, also when it has a default; a
\* column that is not nullable makes its default, or None when it has none.
\* Nothing is raised, whatever the dtype.
C28_NoneByNullableThenDefault ==
    (Converting /\ TheValue = PyNone) =>
        /\ last.exc = "none"
        /\ TheColumn.nullable => last.ret = PyNone
        /\ (~TheColumn.nullable /\ TheColumn.default # PyNone)
              => last.ret = TheColumn.default
        /\ (~TheColumn.nullable /\ TheColumn.default = PyNone)
              => last.ret = PyNone

\* None in a nullable column that has a default.
C28_Witness ==
    /\ Converting
    /\ TheValue = PyNone
    /\ TheColumn.nullable
    /\ TheColumn.default = PyInt(0)
    /\ last.ret = PyNone

\* C29: a DATE column passes a date through and makes of a datetime its
\* date, without the time of day; a DATETIME column passes a datetime
\* through.
C29_DatetimeBecomesDate ==
    Converting =>
        /\ (TheColumn.dtype = "date" /\ TheValue.k = "date")
              => last.ret = TheValue
        /\ (TheColumn.dtype = "date" /\ TheValue.k = "datetime")
              => last.ret = TheValue.date
        /\ (TheColumn.dtype = "datetime" /\ TheValue.k = "datetime")
              => last.ret = TheValue

\* What holds of C29: a DATE column passes a datetime through as well.
C29_DatetimePassesThrough ==
    Converting =>
        /\ (TheColumn.dtype = "date" /\ TheValue.k \in {"date", "datetime"})
              => last.ret = TheValue
        /\ (TheColumn.dtype = "datetime" /\ TheValue.k = "datetime")
              => last.ret = TheValue

DateString ==
    /\ Converting
    /\ TheColumn.dtype \in {"date", "datetime"}
    /\ TheValue.k = "str"

\* The formats in the order of their trial, the column's own first.
Trials(own) ==
    own \o (IF TheColumn.dtype = "date" THEN DateFormats ELSE DatetimeFormats)

\* The value of the column's type that a parsed datetime stands for.
OfType(datetime) ==
    IF TheColumn.dtype = "date" THEN datetime.date ELSE datetime

\* What the trial of the formats in order, then pandas, then nothing gives.
InOrder(formats) ==
    IF \E i \in 1..Len(formats) : strptime(Chars[TheValue.s], formats[i]).ok
    THEN OfType(strptime(Chars[TheValue.s],
                         formats[CHOOSE i \in 1..Len(formats) :
                            /\ strptime(Chars[TheValue.s], formats[i]).ok
                            /\ \A j \in 1..(i - 1) :
                                  ~strptime(Chars[TheValue.s], formats[j]).ok]).v)
    ELSE IF last.input.to_datetime.ok THEN OfType(last.input.to_datetime.v)
    ELSE TheValue

\* C30: for a string in a DATE or DATETIME column the date_format of the
\* column is tried first if there is one, then the common formats in their
\* order, the first that matches giving the result, then pandas; the string
\* comes back only when all of them fail.  01/02/2024 is the first of
\* February.
C30_FormatThenCommonFormats ==
    DateString =>
        /\ last.exc = "none"
        /\ last.ret
              = InOrder(Trials(IF TheColumn.date_format = PyNone THEN <<>>
                               ELSE <<TheColumn.date_format.tokens>>))
        /\ (/\ TheColumn.dtype = "date"
            /\ TheColumn.date_format = PyNone
            /\ TheValue.s = "01/02/2024")
              => last.ret = PyDate(2024, 2, 1)

\* What holds of C30: with a date_format only that format is tried, and the
\* string comes back when it does not match; the common formats and pandas
\* are tried for a column without date_format.
C30_FormatOrCommonFormats ==
    DateString =>
        /\ last.exc = "none"
        /\ TheColumn.date_format # PyNone =>
              last.ret
                  = IF strptime(Chars[TheValue.s],
                                TheColumn.date_format.tokens).ok
                    THEN OfType(strptime(Chars[TheValue.s],
                                         TheColumn.date_format.tokens).v)
                    ELSE TheValue
        /\ TheColumn.date_format = PyNone => last.ret = InOrder(Trials(<<>>))
        /\ (/\ TheColumn.dtype = "date"
            /\ TheColumn.date_format = PyNone
            /\ TheValue.s = "01/02/2024")
              => last.ret = PyDate(2024, 2, 1)

\* An ARRAY column applied to a value that is not None.
ToArray ==
    /\ Converting
    /\ TheColumn.dtype = "array"
    /\ TheValue # PyNone

\* value.split(","), each part stripped
CommaSplit == PyList(SplitStripped(Chars[TheValue.s], 1, <<>>))

\* What an ARRAY column makes of a list and of a value that is neither a
\* list nor a string.
ListOrWrapped ==
    /\ (TheValue.k = "list" /\ TheColumn.array_item_type = "none")
          => last.ret = TheValue
    /\ (TheValue.k = "list" /\ TheColumn.array_item_type = "integer")
          => /\ Len(last.ret.items) = Len(TheValue.items)
             /\ \A i \in 1..Len(TheValue.items) :
                   TheValue.items[i] = PyStr("30")
                       => last.ret.items[i] = PyInt(30)
    /\ TheValue.k \notin {"list", "str"} => last.ret = PyList(<<TheValue>>)

\* C31: of a value that is not None an ARRAY column makes a list: a list
\* passes through, each element coerced to array_item_type when that is set;
\* a string that is the text of a JSON array becomes that array, and every
\* other string, one that is the text of another JSON value included, is
\* split on commas into trimmed parts; any other value becomes the only
\* element of a list.
C31_ArrayMakesList ==
    ToArray =>
        /\ last.exc = "none"
        /\ last.ret.k = "list"
        /\ ListOrWrapped
        /\ TheValue.k = "str" =>
              last.ret = IF /\ json_loads(Chars[TheValue.s]).ok
                            /\ json_loads(Chars[TheValue.s]).v.k = "list"
                         THEN json_loads(Chars[TheValue.s]).v
                         ELSE CommaSplit

\* What holds of C31: a string that is the text of a JSON value other than
\* an array becomes the only element of a list, commas and spaces kept; only
\* a string that is no JSON text is split.  Nothing but the OverflowError of
\* an item is raised.
C31_ArrayWrapsOtherJson ==
    ToArray =>
        /\ last.exc \in {"none", "OverflowError"}
        /\ last.exc = "none" => (last.ret.k = "list" /\ ListOrWrapped)
        /\ last.exc = "OverflowError" =>
              /\ TheValue.k = "list"
              /\ TheColumn.array_item_type = "integer"
              /\ \E i \in 1..Len(TheValue.items) :
                    TheValue.items[i] = PyStr("inf")
        /\ TheValue.k = "str" =>
              last.ret = IF ~json_loads(Chars[TheValue.s]).ok
                         THEN CommaSplit
                         ELSE IF json_loads(Chars[TheValue.s]).v.k = "list"
                         THEN json_loads(Chars[TheValue.s]).v
                         ELSE PyList(<<TheValue>>)
        /\ (TheValue = PyStr("{\"a\": 1, \"b\": 2}"))
              => last.ret = PyList(<<TheValue>>)
        /\ (TheValue = PyStr("a, b"))
              => last.ret = PyList(<<PyStr("a"), PyStr("b")>>)

ConvertingData == last.op = "convert_data"
TheSchema == last.self
TheData == last.args[1]

\* The values under the keys that name a column of the schema are lists.
ColumnsAreLists ==
    \A i \in 1..Len(TheData.keys) :
        HasColumn(TheSchema, TheData.keys[i]) => TheData.vals[i].k = "list"

\* convert_value of the j-th cell under the i-th key.
CellConverted(i, j) ==
    convert_value(get_column(TheSchema, TheData.keys[i]),
                  TheData.vals[i].items[j], NoPandas)

\* Every convert_value that convert_data calls returns.
CellsConvert ==
    \A i \in 1..Len(TheData.keys) :
        HasColumn(TheSchema, TheData.keys[i]) =>
            \A j \in 1..Len(TheData.vals[i].items) :
                CellConverted(i, j).exc = "none"

Rectangular(data) ==
    /\ \A i \in 1..Len(data.vals) : data.vals[i].k = "list"
    /\ \A i, j \in 1..Len(data.vals) :
          Len(data.vals[i].items) = Len(data.vals[j].items)

Named(schema, name) ==
    {i \in 1..Len(schema.columns) : schema.columns[i].name = name}

\* C33: the names of the columns of a constructed Schema are distinct,
\* whether it was built from a mapping or from a list of Column objects:
\* get_column_names returns no name twice, and get_column(name) returns the
\* one column of the schema that has the name, or None when there is none.
C33_ColumnNamesUnique ==
    /\ last.op = "get_column_names" =>
          \A i, j \in 1..Len(last.ret.items) :
              last.ret.items[i] = last.ret.items[j] => i = j
    /\ last.op = "get_column" =>
          IF Named(last.self, last.args[1]) = {} THEN last.ret = PyNone
          ELSE /\ Cardinality(Named(last.self, last.args[1])) = 1
               /\ \A i \in Named(last.self, last.args[1]) :
                     last.ret = last.self.columns[i]

\* What holds of C33: the names are distinct in a Schema built from a
\* mapping; one built from a list has the columns of the list, two of one
\* name included, and get_column returns the last of the name.
C33_UniqueFromMapping ==
    /\ (last.op = "get_column_names" /\ last.input.k = "dict") =>
          \A i, j \in 1..Len(last.ret.items) :
              last.ret.items[i] = last.ret.items[j] => i = j
    /\ (last.op = "get_column_names" /\ last.input.k = "list") =>
          last.ret = PyList([i \in 1..Len(last.input.items) |->
                                PyStr(last.input.items[i].name)])
    /\ last.op = "get_column" =>
          IF Named(last.self, last.args[1]) = {} THEN last.ret = PyNone
          ELSE /\ last.input.k = "dict"
                     => Cardinality(Named(last.self, last.args[1])) = 1
               /\ \A i \in Named(last.self, last.args[1]) :
                     (\A j \in Named(last.self, last.args[1]) : j <= i)
                         => last.ret = last.self.columns[i]

\* C34: no entry is mutated in place.  A set that writes leaves under its
\* key the record of its own data and of the current time, whatever the
\* file held before, and touches no other file; a get leaves every file
\* that it does not delete as it was, and serves the record of the last set
\* for ttl counted from that set.
C34_SetReplacesWhole ==
    [][/\ (last'.op = "set" /\ last'.branch = "written")
          => /\ files' = Store(files, cache_file(last'.args),
                               Dumped[now, lastSet'[last'.args].data].text)
             /\ HasEntry(files', last'.args)
             /\ EntryTime(files', last'.args) = now
             /\ IsJson(lastSet'[last'.args].data)
                   => EntryData(files', last'.args)
                         = lastSet'[last'.args].data
       /\ last'.op = "get"
          => /\ \A name \in DOMAIN files' :
                   name \in DOMAIN files /\ files'[name] = files[name]
             /\ (/\ last.op = "set"
                 /\ last.branch = "written"
                 /\ last.args = last'.args
                 /\ IsJson(lastSet[last.args].data)
                 /\ enabled)
                   => /\ last'.exc = "none"
                      /\ last'.ret = lastSet[last.args].data
             /\ (/\ enabled
                 /\ HasEntry(files, last'.args)
                 /\ now - EntryTime(files, last'.args) <= ttl)
                   => /\ last'.exc = "none"
                      /\ last'.ret = EntryData(files, last'.args)]_vars

\* A set has replaced a record older than ttl by a record of other data,
\* and the get that followed it has served the new data.
C34_Witness ==
    /\ last.op = "get"
    /\ last.after = "stale"
    /\ last.branch = "hit"
    /\ last.ret = DataAnn
    /\ EntryTime(files, last.args) = now
    /\ now > ttl

Racing == last.op = "race"

\* A get of process p has returned.
GetReturned(p) ==
    last.procs[p].call = "get" /\ last.procs[p].pc = "returned"

\* C35: however the steps of two processes on one cache file interleave, a
\* set racing with a get or with a set, no call raises, and a get returns
\* None or the whole payload that some set was given: a record that is torn
\* reads as a corrupt record, and no get yields a part or a mixture of
\* payloads.
C35_RaceYieldsWholePayloads ==
    Racing =>
        \A p \in Procs :
            /\ last.procs[p].exc = "none"
            /\ GetReturned(p) =>
                  \/ last.procs[p].ret = PyNone
                  \/ last.procs[p].ret \in last.sets

\* What holds of C35: no call raises, a get returns None or a table, and a
\* payload that no set was given is returned only after sets of different
\* payloads.
C35_NothingRaisesInRace ==
    Racing =>
        \A p \in Procs :
            /\ last.procs[p].exc = "none"
            /\ GetReturned(p) =>
                  \/ last.procs[p].ret = PyNone
                  \/ last.procs[p].ret \in last.sets
                  \/ /\ last.procs[p].ret.k = "dict"
                     /\ Cardinality(last.sets) >= 2


\* The table the methods return for a completion text that is not JSON.
FallbackTable(text) == PyDict(<<"content">>, <<PyList(<<text>>)>>)

\* C36: when the completion text of an extraction call of a caching client
\* is not JSON, the call ends with json.loads and cache.set, the entry of the
\* call's key holds {"content": [response_text]} stamped with the time of the
\* write, and the call returns that table; the same call made again within
\* ttl, whatever the upstream would answer, makes no request and returns
\* from the entry, which it leaves as it is: the table itself, and in the
\* schema method schema.convert_data of it.
C36_FallbackIsCached ==
    [][(Extracted /\ uses_cache(client))
       => (/\ last'.branch = "fallback"
                => LET text == response_text(Answered(last'.input)[1]).v
                       n == Len(last'.trace)
                   IN
                   /\ Requests(last'.trace) >= 1
                   /\ n >= 2
                   /\ SubSeq(last'.trace, n - 1, n)
                         = <<Event("parse", 0), Event("cache.set", 0)>>
                   /\ HasEntry(files', last'.args)
                   /\ EntryData(files', last'.args) = FallbackTable(text)
                   /\ EntryTime(files', last'.args) = now'
                   /\ last'.exc = "none"
                   /\ last'.ret = FallbackTable(text)
           /\ (/\ last.op = last'.op
               /\ last.args = last'.args
               /\ last.input.params = last'.input.params
               /\ last.branch = "fallback"
               /\ uses_cache(last.input.client)
               /\ now - last.at <= ttl)
                => (/\ Requests(last'.trace) = 0
                    /\ last'.trace[1] = Event("cache.get", 0)
                    /\ last'.branch = "hit"
                    /\ last'.exc = "none"
                    /\ last'.ret
                          = IF last'.op = SchemaOp
                            THEN convert_data(last'.input.params, last.ret).v
                            ELSE last.ret
                    /\ files' = files))]_vars

\* The text method has returned {"content": ["1,000"]} from the entry that
\* an earlier call of it wrote for a completion that is not JSON, and has
\* made no request, the upstream being one that never answers.
C36_Witness ==
    /\ last.op = TextOp
    /\ last.branch = "hit"
    /\ Requests(last.trace) = 0
    /\ last.input.upstream = Timeouts
    /\ last.ret = ContentString
    /\ last.args \in DOMAIN lastSet
    /\ lastSet[last.args].data = ContentString
    /\ lastSet[last.args].by = [op |-> TextOp, params |-> last.input.params]
    /\ EntryData(files, last.args) = ContentString

\* The call ended without a completion: its request raised ValueError or
\* RuntimeError, or the response it received had no choices.
Aborted(call) ==
    \/ call.exc \in {"ValueError", "RuntimeError"} /\ call.text # ""
    \/ call.branch = "no_response"

\* C37 as stated: an extraction call whose request raises ValueError or
\* RuntimeError, or that receives a response without choices, leaves the
\* cache store as it was.
C37_AbortLeavesStore ==
    [][(Extracted /\ Aborted(last')) => files' = files]_vars

\* C37, amended: such a call makes no cache.set and creates and replaces no
\* entry; the store changes only when the cache.get at the head of the call
\* removes the entry of the call's key, which was not valid; and the same
\* call of the same client made next asks the upstream again.
C37_AbortWritesNothing ==
    [][Extracted
       => (/\ Aborted(last')
                => (/\ \A i \in 1..Len(last'.trace) :
                          last'.trace[i].e # "cache.set"
                    /\ \A n \in DOMAIN files' :
                          n \in DOMAIN files /\ files'[n] = files[n]
                    /\ \A n \in DOMAIN files \ DOMAIN files' :
                          /\ n = cache_file(last'.args)
                          /\ uses_cache(client)
                          /\ ~ValidEntry(files, last'.args)
                    /\ last'.exc = "ValueError"
                          => Requests(last'.trace) >= 1
                    /\ last'.exc = "RuntimeError"
                          => Requests(last'.trace) >= client.max_retries)
           /\ (/\ last.op = last'.op
               /\ last.args = last'.args
               /\ last.input.client = last'.input.client
               /\ last.input.params = last'.input.params
               /\ last'.input.exists
               /\ Aborted(last))
                => Requests(last'.trace) >= 1)]_vars

\* A caching client has asked once, the upstream has answered 401, and the
\* call has raised ValueError; the store holds no entry for the call's key.
C37_Witness ==
    /\ last.op \in ExtractionOps
    /\ uses_cache(last.input.client)
    /\ last.exc = "ValueError"
    /\ last.text = "Invalid API key"
    /\ last.trace = <<Event("cache.get", 0), Event("request", 1)>>
    /\ cache_file(last.args) \notin DOMAIN files

\* The schema method has made its request with use_strict_schema = True.
StrictRequested ==
    last.op = "request_with_schema" /\ last.input.use_strict_schema

\* The outcome of the call of process_content with response_format, and of
\* the call without it.
FirstReply == process_content_outcome(last.input.client, last.input.upstream)
SecondReply == process_content_outcome(last.input.client, last.input.retry)

\* process_content is called again, once, without response_format, and its
\* result is the response of the method.
ReissuedOnce ==
    /\ last.formats = <<"json_schema", "None">>
    /\ last.trace = FirstReply.trace \o SecondReply.trace
    /\ last.ret = SecondReply.ret
    /\ last.exc = SecondReply.exc
    /\ last.text = SecondReply.text

\* The ValueError of the first call reaches the caller and no other request
\* is made.
Propagated ==
    /\ last.formats = <<"json_schema">>
    /\ last.trace = FirstReply.trace
    /\ last.exc = "ValueError"
    /\ last.text = FirstReply.text

\* C38: with use_strict_schema = True, when the request with response_format
\* is rejected with status 400, process_content is called once more without
\* response_format and its result is used; the ValueError of status 401 and
\* the one of status 404 reach the caller and no second request is made,
\* whatever the model of the client.
C38_FallbackOn400Only ==
    (StrictRequested /\ FirstReply.exc = "ValueError")
       => (/\ FirstReply.cause.status = 400 => ReissuedOnce
           /\ FirstReply.cause.status \in {401, 404} => Propagated)

\* What holds of C38: the same, for the models whose name holds neither
\* "400" nor "Invalid request"; the ValueError of status 404 of the other
\* models is followed by the request without response_format.
C38_FallbackOn400OrNamedModel ==
    (StrictRequested /\ FirstReply.exc = "ValueError")
       => LET named ==
                 \/ Contains(Chars[last.input.client.model], Chars["400"])
                 \/ Contains(Chars[last.input.client.model],
                             Chars["Invalid request"])
          IN
          /\ FirstReply.cause.status = 400 => ReissuedOnce
          /\ FirstReply.cause.status = 401 => Propagated
          /\ (FirstReply.cause.status = 404 /\ ~named) => Propagated
          /\ (FirstReply.cause.status = 404 /\ named) => ReissuedOnce

\* The wrapper has run: the calls it made of the function, its sleeps and
\* its calls of on_retry, each in order.
Wrapped == last.op = "with_retry"
EventsOf(trace, e) == SelectSeq(trace, LAMBDA x : x.e = e)
Calls == Len(EventsOf(last.trace, "call"))
Sleeps == [i \in 1..Len(EventsOf(last.trace, "sleep")) |->
              EventsOf(last.trace, "sleep")[i].n]
\* The k-th call of the function raised an exception the decoration lists.
Failed(k) ==
    /\ last.input.func[k].kind = "raise"
    /\ listed(last.input.exceptions, last.input.func[k].exc)

====
